---- MODULE Spec2Model ----
(***************************************************************************)
(* Verification model of the agentic orchestration engine of              *)
(* virtual-ppo-ppm (python-agents): the autonomy gate, the bounded        *)
(* tool-calling loop (run_agent_loop) and the chat request handler        *)
(* (agent_chat) with its single-depth handoff.                            *)
(***************************************************************************)
EXTENDS Integers, Sequences, FiniteSets, TLC

(***************************************************************************)
(* Static tables                                                           *)
(***************************************************************************)

\* agents/types.py: class AgentId
AgentId == {"strategy", "discovery", "risk", "communications", "advisor", "thinker"}

\* agents/types.py: class AutonomyLevel
AutonomyLevel == {"full", "oversight", "advisory", "manual"}

\* agents/types.py: class AutonomyGateResult
AutonomyGateResult == {"execute", "gate", "block"}

\* tools/mcp_client.py: READ_ONLY_TOOLS
READ_ONLY_TOOLS == {"jira_search_issues", "jira_get_issue", "confluence_search"}

\* tools/mcp_client.py: ALL_TOOL_NAMES
ALL_TOOL_NAMES ==
    {"jira_search_issues", "jira_create_issue", "jira_get_issue",
     "jira_add_comment", "slack_post_message", "slack_send_meeting_summary",
     "confluence_search", "confluence_create_page", "email_send"}

\* Python's None
None == "None"

\* agents/autonomy.py: TOOL_AUTONOMY_OVERRIDES.get(tool_name)
TOOL_AUTONOMY_OVERRIDES(tool_name) ==
    CASE tool_name = "email_send" -> "auto_send_emails"
      [] tool_name = "jira_create_issue" -> "auto_create_jira_stories"
      [] OTHER -> None

(***************************************************************************)
(* Autonomy gate                                                           *)
(***************************************************************************)

\* faulty variant: the override table is consulted but any true preference
\* lets an overridable tool through
check_autonomy_gate_AnyPref(tool_name, autonomy_level, auto_send_emails, auto_create_jira_stories) ==
    IF autonomy_level = "manual" THEN "block"
    ELSE IF autonomy_level = "advisory" THEN "block"
    ELSE IF tool_name \in READ_ONLY_TOOLS THEN "execute"
    ELSE IF autonomy_level = "full" THEN "execute"
    ELSE IF autonomy_level = "oversight" THEN
        IF TOOL_AUTONOMY_OVERRIDES(tool_name) # None
           /\ (auto_send_emails \/ auto_create_jira_stories)
        THEN "execute"
        ELSE "gate"
    ELSE "block"

\* faulty variant: the advisory level is not blocked before the other rules
check_autonomy_gate_NoAdvisory(tool_name, autonomy_level, auto_send_emails, auto_create_jira_stories) ==
    IF autonomy_level = "manual" THEN "block"
    ELSE IF tool_name \in READ_ONLY_TOOLS THEN "execute"
    ELSE IF autonomy_level = "full" THEN "execute"
    ELSE IF autonomy_level = "oversight" THEN
        IF TOOL_AUTONOMY_OVERRIDES(tool_name) # None
           /\ (IF TOOL_AUTONOMY_OVERRIDES(tool_name) = "auto_send_emails"
               THEN auto_send_emails ELSE auto_create_jira_stories)
        THEN "execute"
        ELSE "gate"
    ELSE "block"

\* faulty variant: read-only tools are not let through ahead of the level rules
check_autonomy_gate_NoReadOnly(tool_name, autonomy_level, auto_send_emails, auto_create_jira_stories) ==
    IF autonomy_level = "manual" THEN "block"
    ELSE IF autonomy_level = "advisory" THEN "block"
    ELSE IF autonomy_level = "full" THEN "execute"
    ELSE IF autonomy_level = "oversight" THEN
        IF TOOL_AUTONOMY_OVERRIDES(tool_name) # None
           /\ (IF TOOL_AUTONOMY_OVERRIDES(tool_name) = "auto_send_emails"
               THEN auto_send_emails ELSE auto_create_jira_stories)
        THEN "execute"
        ELSE "gate"
    ELSE "block"

\* faulty variant: full autonomy executes only the known tools
check_autonomy_gate_KnownOnly(tool_name, autonomy_level, auto_send_emails, auto_create_jira_stories) ==
    IF autonomy_level = "manual" THEN "block"
    ELSE IF autonomy_level = "advisory" THEN "block"
    ELSE IF tool_name \in READ_ONLY_TOOLS THEN "execute"
    ELSE IF autonomy_level = "full" THEN
        IF tool_name \in ALL_TOOL_NAMES THEN "execute" ELSE "gate"
    ELSE IF autonomy_level = "oversight" THEN
        IF TOOL_AUTONOMY_OVERRIDES(tool_name) # None
           /\ (IF TOOL_AUTONOMY_OVERRIDES(tool_name) = "auto_send_emails"
               THEN auto_send_emails ELSE auto_create_jira_stories)
        THEN "execute"
        ELSE "gate"
    ELSE "block"

\* agents/autonomy.py: check_autonomy_gate
check_autonomy_gate(tool_name, autonomy_level, auto_send_emails, auto_create_jira_stories) ==
    IF autonomy_level = "manual" THEN "block"
    ELSE IF autonomy_level = "advisory" THEN "block"
    ELSE IF tool_name \in READ_ONLY_TOOLS THEN "execute"
    ELSE IF autonomy_level = "full" THEN "execute"
    ELSE IF autonomy_level = "oversight" THEN
        IF TOOL_AUTONOMY_OVERRIDES(tool_name) # None
           /\ (IF TOOL_AUTONOMY_OVERRIDES(tool_name) = "auto_send_emails"
               THEN auto_send_emails ELSE auto_create_jira_stories)
        THEN "execute"
        ELSE "gate"
    ELSE "block"

(***************************************************************************)
(* Agent registry                                                          *)
(***************************************************************************)

\* agents/registry.py: AGENTS[agent_id].max_iterations
AGENTS_max_iterations(a) ==
    CASE a = "strategy" -> 5
      [] a = "discovery" -> 4
      [] a = "risk" -> 4
      [] a = "communications" -> 4
      [] a = "advisor" -> 3
      [] a = "thinker" -> 5

\* agents/registry.py: AGENTS[agent_id].tools, the allowed tools of an agent
AGENTS_tools(a) ==
    CASE a = "strategy" -> {"jira_search_issues", "jira_get_issue", "jira_create_issue",
                            "confluence_search", "confluence_create_page"}
      [] a = "discovery" -> {"confluence_search", "confluence_create_page"}
      [] a = "risk" -> {"jira_search_issues", "slack_post_message", "confluence_search"}
      [] a = "communications" -> ALL_TOOL_NAMES
      [] a = "advisor" -> {}
      [] a = "thinker" -> {"jira_search_issues", "jira_get_issue", "confluence_search",
                           "slack_post_message"}

\* agents/registry.py: AGENTS[agent_id].name
AGENTS_name(a) ==
    CASE a = "strategy" -> "Strategy Agent"
      [] a = "discovery" -> "Discovery Agent"
      [] a = "risk" -> "Risk Agent"
      [] a = "communications" -> "Communications Agent"
      [] a = "advisor" -> "Expert Advisor"
      [] a = "thinker" -> "Thinker"

(***************************************************************************)
(* Bounds of the environment: what the model provider and the request     *)
(* may contain.                                                           *)
(***************************************************************************)

\* most fenced tool blocks in one model response
MaxBlocks == 2

\* most tool-call blocks the model provider emits, over one chat request, in
\* the responses the loop parses
MaxEmitted == 3

\* agents the requests select
RequestAgents == {"advisor"}

\* one tool call written by the model provider
ToolCall(name, arguments) == [kind |-> "call", name |-> name, arguments |-> arguments]

\* the tool calls the model provider writes. The JSON value under "arguments"
\* is "object" (an object every handler processes), "object_badvalue" (an
\* object holding a value of a type the tool's request builder or describer
\* does not handle: labels ["a"] for jira_create_issue, text 5 for
\* slack_post_message) or "not_object" (null, a string, a number)
ToolCalls ==
    {ToolCall("jira_search_issues", "object"),
     ToolCall("jira_create_issue", "object"),
     ToolCall("jira_create_issue", "object_badvalue"),
     ToolCall("slack_post_message", "object_badvalue"),
     ToolCall("made_up_tool", "object"),
     ToolCall("made_up_tool", "not_object")}

\* a fenced ```tool block the parser drops: invalid JSON, or a JSON object or
\* array lacking a key
DroppedBlock == [kind |-> "dropped", name |-> None, arguments |-> None]

\* a fenced ```tool block holding a JSON number, boolean or null
ScalarBlock == [kind |-> "scalar", name |-> None, arguments |-> None]

\* sequences of at most n elements of S
SeqUpTo(S, n) == UNION {[1..k -> S] : k \in 0..n}

\* handoff markers [HANDOFF: x] as written in a text
MarkerSpellings == {"risk", "ADVISOR", "bogus"}

\* A text is abstracted to the fenced tool blocks it holds (in order), the
\* handoff markers it holds outside them (in order) and whether anything else
\* but whitespace is left.
Text(blocks, markers, prose) == [blocks |-> blocks, markers |-> markers, prose |-> prose]

\* the empty string
EmptyText == Text(<<>>, <<>>, FALSE)

\* what a provider may send back as message content: nothing; tool calls
\* with prose; prose with or without a handoff marker; a malformed block,
\* alone, with prose or ahead of a tool call; a tool call next to a handoff
\* marker
ProviderContents ==
    {Text(b, <<>>, TRUE) : b \in SeqUpTo(ToolCalls, MaxBlocks) \ {<<>>}}
        \cup {Text(<<>>, m, TRUE) : m \in SeqUpTo(MarkerSpellings, 1)}
        \cup {EmptyText,
              Text(<<DroppedBlock>>, <<>>, FALSE),
              Text(<<DroppedBlock>>, <<>>, TRUE),
              Text(<<DroppedBlock, ToolCall("jira_search_issues", "object")>>, <<>>, TRUE),
              Text(<<ScalarBlock>>, <<>>, TRUE),
              Text(<<ToolCall("made_up_tool", "object")>>, <<"risk">>, TRUE)}

(***************************************************************************)
(* Tool client (tools/mcp_client.py)                                       *)
(***************************************************************************)

\* parse_tool_calls raises TypeError: `"name" in parsed` on a JSON number,
\* boolean or null, which the except clause (JSONDecodeError, KeyError) lets through
parse_tool_calls_raises(response) ==
    \E i \in 1..Len(response.blocks) : response.blocks[i].kind = "scalar"

\* faulty variant: the calls come out last block first
RECURSIVE parse_tool_calls_Reversed(_)
parse_tool_calls_Reversed(response) ==
    IF response.blocks = <<>> THEN <<>>
    ELSE parse_tool_calls_Reversed(Text(Tail(response.blocks), response.markers, response.prose))
             \o (IF Head(response.blocks).kind = "call" THEN <<Head(response.blocks)>> ELSE <<>>)

\* tools/mcp_client.py: parse_tool_calls, the calls in order of appearance
parse_tool_calls(response) ==
    SelectSeq(response.blocks, LAMBDA b : b.kind = "call")

\* faulty variant: the text is handed back with its tool blocks
strip_tool_blocks_Keep(response) == response

\* tools/mcp_client.py: strip_tool_blocks
strip_tool_blocks(response) == Text(<<>>, response.markers, response.prose)

\* str.lower() on the spellings of the model
Lower(m) == CASE m = "ADVISOR" -> "advisor" [] m = "RISK" -> "risk" [] OTHER -> m

\* faulty variant: the marker is matched in lower case only
_detect_handoff_CaseSensitive(content) ==
    LET legal == {i \in 1..Len(content.markers) : content.markers[i] \in AgentId}
    IN  IF legal = {} THEN None
        ELSE content.markers[CHOOSE i \in legal : \A j \in legal : i <= j]

\* faulty variant: the last marker naming a legal agent is taken
_detect_handoff_LastMarker(content) ==
    LET legal == {i \in 1..Len(content.markers) : Lower(content.markers[i]) \in AgentId}
    IN  IF legal = {} THEN None
        ELSE Lower(content.markers[CHOOSE i \in legal : \A j \in legal : i >= j])

\* agents/loop.py: _detect_handoff, the first marker naming a legal agent
_detect_handoff(content) ==
    LET legal == {i \in 1..Len(content.markers) : Lower(content.markers[i]) \in AgentId}
    IN  IF legal = {} THEN None
        ELSE Lower(content.markers[CHOOSE i \in legal : \A j \in legal : i <= j])

\* execute_tool builds the request outside its try block: arguments.get on a
\* value that is no object, quote() of a non-string, labels_raw.split on a
\* list, json.loads of an item list that is no JSON all raise
execute_tool_raises(tool_name, arguments) ==
    \/ tool_name \in ALL_TOOL_NAMES /\ arguments = "not_object"
    \/ /\ arguments = "object_badvalue"
       /\ tool_name \in {"jira_search_issues", "jira_create_issue", "jira_get_issue",
                         "slack_send_meeting_summary", "confluence_search"}

\* what the backend call of execute_tool may end as: a status below 400, a
\* status of 400 or more, an exception inside the try block; a name no case
\* matches never reaches the backend
execute_tool_outcomes(tool_name) ==
    IF tool_name \in ALL_TOOL_NAMES THEN {"ok", "http_error", "exception"}
    ELSE {"unknown_tool"}

\* tools/mcp_client.py: execute_tool, the normalized result of an outcome
execute_tool(tool_name, outcome) ==
    [content |-> [kind |-> outcome, tool |-> tool_name],
     is_error |-> outcome # "ok"]

\* describe_tool_action raises on arguments.get of a value that is no object
\* and on arguments.get("text", "")[:80] of a value that cannot be sliced
describe_tool_action_raises(tool_name, arguments) ==
    \/ tool_name \in ALL_TOOL_NAMES /\ arguments = "not_object"
    \/ tool_name = "slack_post_message" /\ arguments = "object_badvalue"

\* tools/mcp_client.py: describe_tool_action
describe_tool_action(tool_name, arguments) ==
    [kind |-> "description", tool |-> tool_name, arguments |-> arguments]

\* agents/types.py: ToolExecution.arguments and PendingAction.tool_arguments
\* are declared dict[str, Any]; constructing either with another value raises
\* a validation error
record_raises(arguments) == arguments = "not_object"

\* faulty variant: every record is written with status executed
ToolExecution_AlwaysExecuted(tool_name, arguments, result, status) ==
    [tool_name |-> tool_name, arguments |-> arguments, result |-> result,
     status |-> "executed"]

\* agents/types.py: ToolExecution
ToolExecution(tool_name, arguments, result, status) ==
    [tool_name |-> tool_name, arguments |-> arguments, result |-> result, status |-> status]

\* agents/types.py: PendingAction
PendingAction(id, agent, tool_name, tool_arguments, description) ==
    [id |-> id, agent_id |-> agent, tool_name |-> tool_name,
     tool_arguments |-> tool_arguments, description |-> description,
     status |-> "pending"]

\* agents/types.py: ChatMessage
ChatMessage(role, content) == [role |-> role, content |-> content]

\* agents/types.py: AgentResponse
AgentResponse(agent, content, executed, pending, handoff, iters) ==
    [agent_id |-> agent, content |-> content, tools_executed |-> executed,
     pending_actions |-> pending, handoff_to |-> handoff, iterations |-> iters]

\* faulty variant: an empty completion is handed back to the caller
llm_chat_raises_Never(content) == FALSE

\* providers/llm.py: every provider function raises ValueError on empty content
llm_chat_raises(content) == content = EmptyText

(***************************************************************************)
(* State                                                                   *)
(***************************************************************************)

VARIABLES
    gate_in,            \* inputs handed to check_autonomy_gate on its own
    gate_out,           \* its result
    pc,                 \* where the chat request stands
    request,            \* the AgentChatRequest: agent, preferences, history
    run,                \* loop runs started by this request
    result,             \* agent_chat: the first run's AgentResponse
    chat_response,      \* agent_chat: the AgentChatResponse sent back
    agent_id,           \* run_agent_loop: the agent of the current run
    iterations,         \* run_agent_loop: iterations
    messages,           \* run_agent_loop: the conversation
    response_text,      \* run_agent_loop: the model response of this iteration
    tool_calls,         \* run_agent_loop: parsed calls not handled yet
    tool_result_parts,  \* run_agent_loop: tool-result text of this iteration
    tools_executed,     \* run_agent_loop: Tool Execution Records
    pending_actions,    \* run_agent_loop: Pending Actions
    llm_log,            \* every model call made, in order
    exec_log,           \* every call of execute_tool made, in order
    gate_log,           \* every decision of the gate taken by the loop, in order
    returns,            \* every AgentResponse run_agent_loop returned, in order
    emitted,            \* tool-call blocks the model provider has emitted
    message,            \* route_message: the message, as its characters
    explicit_agent,     \* route_message: the agent selected by the user, or None
    route_result,       \* route_message: the agent returned
    route_log,          \* route_message: the keyword scan and model call made, in order
    RAG_MAX_TOKENS,     \* config.py: the token budget of the retrieved context
    knowledge_docs,     \* retrieve_context: the knowledge documents of the request
    confluence_enabled, \* retrieve_context: whether Confluence is connected
    keywords,           \* retrieve_context: the extracted keywords
    all_docs,           \* retrieve_context: the documents found, sorted once both sources ran
    rag_result,         \* retrieve_context: the documents returned
    rag_log,            \* retrieve_context: the model call and tool invocation made, in order
    llm_config,         \* agent_chat: the LLMConfig built from the request settings
    network_calls,      \* agent_chat: the network calls the request has made, in order
    procs,              \* concurrent requests: the locals of each request's coroutine
    heard,              \* concurrent requests: the answers each request has received, in order
    chunk_words,        \* chunk_text: len(words), the words of the text
    chunk_size,         \* chunk_text: chunk_size
    overlap,            \* chunk_text: overlap
    start,              \* chunk_text: start
    chunk_out,          \* chunk_text: chunks, each as the word positions it holds
    action,             \* handle_pending_action: the request being answered
    action_log          \* handle_pending_action: the answers given, in order

gateVars == <<gate_in, gate_out>>

routeVars == <<message, explicit_agent, route_result, route_log>>

ragVars ==
    <<RAG_MAX_TOKENS, knowledge_docs, confluence_enabled, keywords, all_docs,
      rag_result, rag_log>>

configVars == <<llm_config, network_calls>>

pairVars == <<procs, heard>>

chunkVars == <<chunk_words, chunk_size, overlap, start, chunk_out>>

actionVars == <<action, action_log>>

\* the variables of the other components, which agent_chat and
\* run_agent_loop leave alone
notLoopVars ==
    <<gateVars, routeVars, ragVars, configVars, pairVars, chunkVars, actionVars>>

loopVars ==
    <<agent_id, iterations, messages, response_text, tool_calls,
      tool_result_parts, tools_executed, pending_actions>>

chatVars == <<run, result, chat_response>>

vars ==
    <<gate_in, gate_out, pc, request, run, result, chat_response, agent_id,
      iterations, messages, response_text, tool_calls, tool_result_parts,
      tools_executed, pending_actions, llm_log, exec_log, gate_log, returns,
      emitted, message, explicit_agent, route_result, route_log,
      RAG_MAX_TOKENS, knowledge_docs, confluence_enabled, keywords, all_docs,
      rag_result, rag_log, llm_config, network_calls, procs, heard,
      chunk_words, chunk_size, overlap, start, chunk_out, action, action_log>>

\* the text of a user, system or history message
Prose == Text(<<>>, <<>>, TRUE)

\* agents/types.py: AgentChatRequest, with the settings agent_chat reads
\* (the two preferences vary under oversight, the one level that reads them)
Requests ==
    {r \in [agent_id : RequestAgents,
            autonomy_level : AutonomyLevel,
            auto_send_emails : BOOLEAN,
            auto_create_jira_stories : BOOLEAN,
            history : {<<ChatMessage("user", Prose), ChatMessage("assistant", Prose)>>}] :
        r.autonomy_level # "oversight" =>
            (~r.auto_send_emails /\ ~r.auto_create_jira_stories)}

\* number of tool-call blocks of a text
CallBlocks(content) == Len(parse_tool_calls(content))

(***************************************************************************)
(* run_agent_loop (agents/loop.py) and agent_chat (main.py)                *)
(***************************************************************************)

\* loop.py 51-67: the locals of a new run, up to its first model call
BeginRun(a, system_prompt, history, user_message) ==
    /\ agent_id' = a
    /\ messages' = <<ChatMessage("system", system_prompt)>> \o history
                       \o <<ChatMessage("user", user_message)>>
    /\ response_text' = EmptyText
    /\ tool_calls' = <<>>
    /\ tool_result_parts' = <<>>
    /\ tools_executed' = <<>>
    /\ pending_actions' = <<>>
    /\ IF AGENTS_max_iterations(a) >= 1
       THEN iterations' = 1 /\ pc' = "llm"
       ELSE iterations' = 0 /\ pc' = "finalize"

\* main.py 198-206: AgentChatResponse
AgentChatResponse(r) ==
    [response |-> r.content, agent_id |-> r.agent_id,
     tools_executed |-> r.tools_executed, pending_actions |-> r.pending_actions]

\* faulty variant: a handoff naming the routed agent itself is followed too
handoff_followed_Any(r, routed) == r.handoff_to # None

\* main.py 157: whether the first run's handoff is followed
handoff_followed(r, routed) == r.handoff_to # None /\ r.handoff_to # routed

\* main.py 94-154: the request is routed (an explicit agent is returned as
\* is), the prompt is built and the first loop run starts
AgentChatStart ==
    /\ pc = "start"
    /\ run' = 1
    /\ BeginRun(request.agent_id, [kind |-> "system_prompt", agent |-> request.agent_id],
                request.history, Prose)
    /\ UNCHANGED <<notLoopVars, request, result, chat_response, llm_log, exec_log,
                   gate_log, returns, emitted>>

\* faulty variant: the exception is swallowed and the step is tried again
Raise_Retry ==
    /\ pc' = pc
    /\ UNCHANGED <<loopVars, chatVars, returns>>

\* an exception leaves run_agent_loop and agent_chat: the request fails
Raise ==
    /\ pc' = "raised"
    /\ UNCHANGED <<loopVars, chatVars, returns>>

\* loop.py 163-173 and main.py 156-206: the run returns its AgentResponse;
\* agent_chat follows the first run's handoff with one more run, or answers
Return(final_content) ==
    LET resp == AgentResponse(agent_id, final_content, tools_executed,
                              pending_actions, _detect_handoff(final_content), iterations)
    IN  /\ returns' = Append(returns, resp)
        /\ IF run = 1
           THEN IF handoff_followed(resp, request.agent_id)
                THEN /\ result' = resp
                     /\ run' = 2
                     /\ chat_response' = chat_response
                     /\ BeginRun(resp.handoff_to,
                                 [kind |-> "system_prompt", agent |-> resp.handoff_to],
                                 <<>>,
                                 [kind |-> "handoff_message", from |-> request.agent_id,
                                  context |-> resp.content])
                ELSE /\ result' = resp
                     /\ chat_response' = AgentChatResponse(resp)
                     /\ pc' = "done"
                     /\ UNCHANGED <<run, loopVars>>
           ELSE LET merged ==
                        [result EXCEPT
                            !.content = [kind |-> "combined", first |-> result.content,
                                         second |-> resp.content],
                            !.tools_executed = result.tools_executed \o resp.tools_executed,
                            !.pending_actions = result.pending_actions \o resp.pending_actions]
                IN  /\ result' = merged
                    /\ chat_response' = AgentChatResponse(merged)
                    /\ pc' = "done"
                    /\ UNCHANGED <<run, loopVars>>

\* one entry of llm_log; ok tells whether llm_chat returned the content,
\* invoked and decided how many tool invocations and gate decisions preceded
\* it, recorded and queued how many records and pending actions the run held
LlmCall(phase, ok, content) ==
    [run |-> run, phase |-> phase, ok |-> ok, content |-> content,
     invoked |-> Len(exec_log), decided |-> Len(gate_log),
     recorded |-> Len(tools_executed), queued |-> Len(pending_actions)]

\* loop.py 70-86 and 157: the model call of an iteration answers; a response
\* without tool calls ends the iterations and, unless it is empty, is the
\* final answer; otherwise its calls are handled next
LlmIterate ==
    /\ pc = "llm"
    /\ \E content \in ProviderContents :
        /\ emitted + CallBlocks(content) <= MaxEmitted
        /\ emitted' = emitted + CallBlocks(content)
        /\ llm_log' = Append(llm_log, LlmCall("iterate", ~llm_chat_raises(content), content))
        /\ IF llm_chat_raises(content) \/ parse_tool_calls_raises(content)
           THEN Raise
           ELSE IF parse_tool_calls(content) = <<>>
           THEN IF content # EmptyText
                THEN Return(content)
                ELSE /\ response_text' = content
                     /\ pc' = "finalize"
                     /\ UNCHANGED <<agent_id, iterations, messages, tool_calls,
                                    tool_result_parts, tools_executed,
                                    pending_actions, chatVars, returns>>
           ELSE /\ response_text' = content
                /\ tool_calls' = parse_tool_calls(content)
                /\ tool_result_parts' = <<>>
                /\ pc' = "tools"
                /\ UNCHANGED <<agent_id, iterations, messages, tools_executed,
                               pending_actions, chatVars, returns>>
    /\ UNCHANGED <<notLoopVars, request, exec_log, gate_log>>

\* loop.py 70, 158: the provider call fails (error status, transport error,
\* timeout); nothing catches it
LlmFail ==
    /\ pc \in {"llm", "finalize"}
    /\ llm_log' = Append(llm_log,
                         LlmCall(IF pc = "llm" THEN "iterate" ELSE "final", FALSE, EmptyText))
    /\ Raise
    /\ UNCHANGED <<notLoopVars, request, exec_log, gate_log, emitted>>

\* faulty variant of AfterToolCall: only the tool results join the
\* conversation, the response of the model is left out
AfterToolCall_OnlyResults(parts) ==
    /\ tool_calls' = Tail(tool_calls)
    /\ tool_result_parts' = parts
    /\ IF Tail(tool_calls) # <<>>
       THEN UNCHANGED <<messages, iterations, pc>>
       ELSE /\ messages' = messages \o
                   <<ChatMessage("user", [kind |-> "tool_results", parts |-> parts])>>
            /\ IF iterations < AGENTS_max_iterations(agent_id)
               THEN iterations' = iterations + 1 /\ pc' = "llm"
               ELSE iterations' = iterations /\ pc' = "finalize"

\* loop.py 144-154 and 66-67: after the last call of a response the response
\* and the tool results join the conversation; the next iteration, or the
\* finalizing call, follows
AfterToolCall(parts) ==
    /\ tool_calls' = Tail(tool_calls)
    /\ tool_result_parts' = parts
    /\ IF Tail(tool_calls) # <<>>
       THEN UNCHANGED <<messages, iterations, pc>>
       ELSE /\ messages' = messages \o
                   <<ChatMessage("assistant", response_text),
                     ChatMessage("user", [kind |-> "tool_results", parts |-> parts])>>
            /\ IF iterations < AGENTS_max_iterations(agent_id)
               THEN iterations' = iterations + 1 /\ pc' = "llm"
               ELSE iterations' = iterations /\ pc' = "finalize"

\* the gate's decision on a parsed call (loop.py 92-97)
GateOf(tc) ==
    check_autonomy_gate(tc.name, request.autonomy_level,
                        request.auto_send_emails, request.auto_create_jira_stories)

\* one entry of gate_log
Decision(tc, gate) ==
    [run |-> run, tool_name |-> tc.name, arguments |-> tc.arguments, gate |-> gate]

\* one entry of exec_log
Invocation(tc, outcome) ==
    [run |-> run, tool_name |-> tc.name, arguments |-> tc.arguments, outcome |-> outcome]

\* loop.py 99-110: the gate said execute
ToolExecute ==
    /\ pc = "tools"
    /\ LET tc == Head(tool_calls) IN
        /\ GateOf(tc) = "execute"
        /\ gate_log' = Append(gate_log, Decision(tc, GateOf(tc)))
        /\ IF execute_tool_raises(tc.name, tc.arguments)
           THEN /\ exec_log' = Append(exec_log, Invocation(tc, "raised"))
                /\ pc' = "raised"
                /\ UNCHANGED loopVars
           ELSE \E outcome \in execute_tool_outcomes(tc.name) :
                LET res == execute_tool(tc.name, outcome) IN
                /\ exec_log' = Append(exec_log, Invocation(tc, outcome))
                /\ IF record_raises(tc.arguments)
                   THEN pc' = "raised" /\ UNCHANGED loopVars
                   ELSE /\ tools_executed' = Append(tools_executed,
                                ToolExecution(tc.name, tc.arguments, res.content,
                                    IF res.is_error THEN "failed" ELSE "executed"))
                        /\ AfterToolCall(Append(tool_result_parts,
                                [kind |-> "result", tool |-> tc.name, content |-> res.content]))
                        /\ UNCHANGED <<agent_id, response_text, pending_actions>>
    /\ UNCHANGED <<notLoopVars, request, chatVars, llm_log, returns, emitted>>

\* faulty variant of ToolGate: the list of pending actions is rebuilt with the
\* new action alone
ToolGate_Requeue ==
    /\ pc = "tools"
    /\ LET tc == Head(tool_calls) IN
        /\ GateOf(tc) = "gate"
        /\ gate_log' = Append(gate_log, Decision(tc, GateOf(tc)))
        /\ IF describe_tool_action_raises(tc.name, tc.arguments) \/ record_raises(tc.arguments)
           THEN pc' = "raised" /\ UNCHANGED loopVars
           ELSE /\ pending_actions' =
                        <<PendingAction(<<run, Len(pending_actions) + 1>>, agent_id, tc.name,
                                        tc.arguments, describe_tool_action(tc.name, tc.arguments))>>
                /\ tools_executed' = Append(tools_executed,
                        ToolExecution(tc.name, tc.arguments, None, "pending"))
                /\ AfterToolCall(Append(tool_result_parts,
                        [kind |-> "requires_approval", tool |-> tc.name]))
                /\ UNCHANGED <<agent_id, response_text>>
    /\ UNCHANGED <<notLoopVars, request, chatVars, llm_log, exec_log, returns, emitted>>

\* loop.py 112-130: the gate said gate
ToolGate ==
    /\ pc = "tools"
    /\ LET tc == Head(tool_calls) IN
        /\ GateOf(tc) = "gate"
        /\ gate_log' = Append(gate_log, Decision(tc, GateOf(tc)))
        /\ IF describe_tool_action_raises(tc.name, tc.arguments) \/ record_raises(tc.arguments)
           THEN pc' = "raised" /\ UNCHANGED loopVars
           ELSE /\ pending_actions' = Append(pending_actions,
                        PendingAction(<<run, Len(pending_actions) + 1>>, agent_id, tc.name,
                                      tc.arguments, describe_tool_action(tc.name, tc.arguments)))
                /\ tools_executed' = Append(tools_executed,
                        ToolExecution(tc.name, tc.arguments, None, "pending"))
                /\ AfterToolCall(Append(tool_result_parts,
                        [kind |-> "requires_approval", tool |-> tc.name]))
                /\ UNCHANGED <<agent_id, response_text>>
    /\ UNCHANGED <<notLoopVars, request, chatVars, llm_log, exec_log, returns, emitted>>

\* loop.py 132-142: the gate said block
ToolBlock ==
    /\ pc = "tools"
    /\ LET tc == Head(tool_calls) IN
        /\ GateOf(tc) \notin {"execute", "gate"}
        /\ gate_log' = Append(gate_log, Decision(tc, GateOf(tc)))
        /\ IF describe_tool_action_raises(tc.name, tc.arguments) \/ record_raises(tc.arguments)
           THEN pc' = "raised" /\ UNCHANGED loopVars
           ELSE /\ tools_executed' = Append(tools_executed,
                        ToolExecution(tc.name, tc.arguments, None, "blocked"))
                /\ AfterToolCall(Append(tool_result_parts,
                        [kind |-> "disabled", tool |-> tc.name,
                         desc |-> describe_tool_action(tc.name, tc.arguments),
                         level |-> request.autonomy_level]))
                /\ UNCHANGED <<agent_id, response_text, pending_actions>>
    /\ UNCHANGED <<notLoopVars, request, chatVars, llm_log, exec_log, returns, emitted>>

\* loop.py 156-161: the finalizing call answers; its text is never parsed
LlmFinalize ==
    /\ pc = "finalize"
    /\ \E content \in ProviderContents :
        /\ llm_log' = Append(llm_log, LlmCall("final", ~llm_chat_raises(content), content))
        /\ IF llm_chat_raises(content)
           THEN Raise
           ELSE Return(strip_tool_blocks(content))
    /\ UNCHANGED <<notLoopVars, request, exec_log, gate_log, emitted>>

Init ==
    /\ gate_in = None
    /\ gate_out = None
    /\ pc = "start"
    /\ request \in Requests
    /\ run = 0
    /\ result = None
    /\ chat_response = None
    /\ agent_id = None
    /\ iterations = 0
    /\ messages = <<>>
    /\ response_text = EmptyText
    /\ tool_calls = <<>>
    /\ tool_result_parts = <<>>
    /\ tools_executed = <<>>
    /\ pending_actions = <<>>
    /\ llm_log = <<>>
    /\ exec_log = <<>>
    /\ gate_log = <<>>
    /\ returns = <<>>
    /\ emitted = 0
    /\ message = <<>>
    /\ explicit_agent = None
    /\ route_result = None
    /\ route_log = <<>>
    /\ RAG_MAX_TOKENS = 4000
    /\ knowledge_docs = <<>>
    /\ confluence_enabled = FALSE
    /\ keywords = <<>>
    /\ all_docs = <<>>
    /\ rag_result = None
    /\ rag_log = <<>>
    /\ llm_config = None
    /\ network_calls = <<>>
    /\ procs = <<>>
    /\ heard = <<>>
    /\ chunk_words = 0
    /\ chunk_size = 0
    /\ overlap = 0
    /\ start = 0
    /\ chunk_out = <<>>
    /\ action = None
    /\ action_log = <<>>

Next ==
    \/ AgentChatStart
    \/ LlmIterate
    \/ LlmFail
    \/ ToolExecute
    \/ ToolGate
    \/ ToolBlock
    \/ LlmFinalize

Spec == Init /\ [][Next]_vars

(***************************************************************************)
(* check_autonomy_gate on its own: every tool name, level and preference  *)
(***************************************************************************)

\* tool names handed to the gate: the known tools, an unknown name, the
\* empty name
GateToolNames == ALL_TOOL_NAMES \cup {"made_up_tool", ""}

\* level values handed to the gate: the four levels and a value that is
\* none of them
GateLevels == AutonomyLevel \cup {"supervised"}

\* the arguments of one call of check_autonomy_gate
GateInputs ==
    [tool_name : GateToolNames,
     autonomy_level : GateLevels,
     auto_send_emails : BOOLEAN,
     auto_create_jira_stories : BOOLEAN]

InitGate ==
    /\ gate_in \in GateInputs
    /\ gate_out = None
    /\ pc = "gate"
    /\ request = None
    /\ run = 0
    /\ result = None
    /\ chat_response = None
    /\ agent_id = None
    /\ iterations = 0
    /\ messages = <<>>
    /\ response_text = EmptyText
    /\ tool_calls = <<>>
    /\ tool_result_parts = <<>>
    /\ tools_executed = <<>>
    /\ pending_actions = <<>>
    /\ llm_log = <<>>
    /\ exec_log = <<>>
    /\ gate_log = <<>>
    /\ returns = <<>>
    /\ emitted = 0
    /\ message = <<>>
    /\ explicit_agent = None
    /\ route_result = None
    /\ route_log = <<>>
    /\ RAG_MAX_TOKENS = 4000
    /\ knowledge_docs = <<>>
    /\ confluence_enabled = FALSE
    /\ keywords = <<>>
    /\ all_docs = <<>>
    /\ rag_result = None
    /\ rag_log = <<>>
    /\ llm_config = None
    /\ network_calls = <<>>
    /\ procs = <<>>
    /\ heard = <<>>
    /\ chunk_words = 0
    /\ chunk_size = 0
    /\ overlap = 0
    /\ start = 0
    /\ chunk_out = <<>>
    /\ action = None
    /\ action_log = <<>>

\* autonomy.py 19-56: one call of check_autonomy_gate
GateApply ==
    /\ pc = "gate"
    /\ gate_out' = check_autonomy_gate(gate_in.tool_name, gate_in.autonomy_level,
                                       gate_in.auto_send_emails,
                                       gate_in.auto_create_jira_stories)
    /\ pc' = "gate_done"
    /\ UNCHANGED <<gate_in, request, chatVars, loopVars, llm_log, exec_log,
                   gate_log, returns, emitted, routeVars, ragVars, configVars, pairVars,
                   chunkVars, actionVars>>

NextGate ==
    \/ GateApply

SpecGate == InitGate /\ [][NextGate]_vars

(***************************************************************************)
(* Properties of the autonomy gate (checked under SpecGate)                *)
(***************************************************************************)

\* the gate has been applied to gate_in
GateApplied == pc = "gate_done"

\* C2: at level Manual, and likewise at level Advisory, check_autonomy_gate
\* returns Block for every tool name, read-only tools included, and every
\* combination of the two preferences.
C2_ManualAdvisoryBlock ==
    (GateApplied /\ gate_in.autonomy_level \in {"manual", "advisory"})
        => gate_out = "block"

\* C2 case: a read-only tool at Advisory with both preferences true is blocked
C2_Witness ==
    /\ GateApplied
    /\ gate_in.autonomy_level = "advisory"
    /\ gate_in.tool_name = "jira_get_issue"
    /\ gate_in.auto_send_emails /\ gate_in.auto_create_jira_stories
    /\ gate_out = "block"

\* C3: at level Oversight, for every tool name that is not read-only, the
\* gate returns Execute iff the tool is email_send and auto_send_emails is
\* true, or the tool is jira_create_issue and auto_create_jira_stories is
\* true; in every other case it returns Gate (never Block; the preference of
\* the other tool has no effect).
C3_OversightOverride ==
    (/\ GateApplied
     /\ gate_in.autonomy_level = "oversight"
     /\ gate_in.tool_name \notin {"jira_search_issues", "jira_get_issue", "confluence_search"})
        => /\ gate_out \in {"execute", "gate"}
           /\ gate_out = "execute" <=>
                \/ gate_in.tool_name = "email_send" /\ gate_in.auto_send_emails
                \/ gate_in.tool_name = "jira_create_issue" /\ gate_in.auto_create_jira_stories

\* C3 case: email_send at Oversight with only the other tool's preference
\* true is gated
C3_Witness ==
    /\ GateApplied
    /\ gate_in.autonomy_level = "oversight"
    /\ gate_in.tool_name = "email_send"
    /\ ~gate_in.auto_send_emails /\ gate_in.auto_create_jira_stories
    /\ gate_out = "gate"

\* C4: for every read-only tool name (jira_search_issues, jira_get_issue,
\* confluence_search) and every level in {Full, Oversight}, the gate returns
\* Execute regardless of the preferences.
C4_ReadOnlyExecute ==
    (/\ GateApplied
     /\ gate_in.tool_name \in {"jira_search_issues", "jira_get_issue", "confluence_search"}
     /\ gate_in.autonomy_level \in {"full", "oversight"})
        => gate_out = "execute"

\* C4 case: confluence_search at Oversight with both preferences false executes
C4_Witness ==
    /\ GateApplied
    /\ gate_in.tool_name = "confluence_search"
    /\ gate_in.autonomy_level = "oversight"
    /\ ~gate_in.auto_send_emails /\ ~gate_in.auto_create_jira_stories
    /\ gate_out = "execute"

\* C5: at level Full the gate returns Execute for any tool name whatsoever,
\* write tools and names outside the known tool set included, regardless of
\* the preferences.
C5_FullExecute ==
    (GateApplied /\ gate_in.autonomy_level = "full") => gate_out = "execute"

\* C5 case: a name outside the known tool set at Full executes
C5_Witness ==
    /\ GateApplied
    /\ gate_in.autonomy_level = "full"
    /\ gate_in.tool_name = "made_up_tool"
    /\ gate_out = "execute"

(***************************************************************************)
(* Properties of run_agent_loop and agent_chat (checked under Spec)        *)
(***************************************************************************)

\* positions in llm_log of the model calls of loop run r in a phase
CallsOf(r, phase) ==
    {i \in 1..Len(llm_log) : llm_log[i].run = r /\ llm_log[i].phase = phase}

\* the agent loop run r is started for
RunAgent(r) == IF r = 1 THEN request.agent_id ELSE returns[1].handoff_to

\* loop run r is over: it returned, or an exception left it
RunOver(r) == r < run \/ (r = run /\ pc \in {"done", "raised"})

\* the gate's decisions of the current run that came out as g, in order
RunDecisions(g) == SelectSeq(gate_log, LAMBDA d : d.run = run /\ d.gate = g)

\* the calls of execute_tool of the current run, in order
RunInvocations == SelectSeq(exec_log, LAMBDA e : e.run = run)

\* the current run's Tool Execution Records with a status among st, in order
RecordsWith(st) == SelectSeq(tools_executed, LAMBDA t : t.status \in st)

\* the gate's answer for a tool name under the request's level and preferences
RequestGate(tool_name) ==
    check_autonomy_gate(tool_name, request.autonomy_level,
                        request.auto_send_emails, request.auto_create_jira_stories)

\* C1: in any loop run the Tool Invoker's execute is called for a parsed tool
\* call only if the gate returned Execute for the call's tool name under the
\* run's level and preferences; each such call is invoked exactly once and
\* produces exactly one Tool Execution Record, whose status is 'failed' iff
\* the invoker reported is_error and 'executed' otherwise.
C1_ExecuteOnceAndRecorded ==
    LET decided == RunDecisions("execute")
        invoked == RunInvocations
        records == RecordsWith({"executed", "failed"})
    IN  /\ \A i \in 1..Len(exec_log) : RequestGate(exec_log[i].tool_name) = "execute"
        /\ Len(invoked) = Len(decided)
        /\ Len(records) = Len(decided)
        /\ \A i \in 1..Len(decided) :
            /\ invoked[i].tool_name = decided[i].tool_name
            /\ invoked[i].arguments = decided[i].arguments
            /\ records[i].tool_name = decided[i].tool_name
            /\ records[i].arguments = decided[i].arguments
            /\ records[i].status =
                 IF execute_tool(invoked[i].tool_name, invoked[i].outcome).is_error
                 THEN "failed" ELSE "executed"

\* C6: in a loop run at level Manual or Advisory every parsed tool call
\* yields exactly one Tool Execution Record with status 'blocked', no Pending
\* Action is ever created and execute is never called by the loop, for any
\* sequence of model responses.
C6_ManualAdvisoryOnlyBlockedRecords ==
    request.autonomy_level \in {"manual", "advisory"} =>
        LET handled == SelectSeq(gate_log, LAMBDA d : d.run = run)
        IN  /\ pending_actions = <<>>
            /\ exec_log = <<>>
            /\ Len(tools_executed) = Len(handled)
            /\ \A i \in 1..Len(handled) :
                /\ tools_executed[i].status = "blocked"
                /\ tools_executed[i].tool_name = handled[i].tool_name
                /\ tools_executed[i].arguments = handled[i].arguments

\* C7: in a loop run every tool call for which the gate returns Gate creates
\* exactly one Pending Action with status 'pending', carrying the run's agent
\* id and the call's tool name and arguments, and exactly one Tool Execution
\* Record with status 'pending'; the tool is not executed.
C7_GateQueuesOnePendingAction ==
    LET gated == RunDecisions("gate")
        records == RecordsWith({"pending"})
    IN  /\ \A i \in 1..Len(exec_log) : RequestGate(exec_log[i].tool_name) # "gate"
        /\ Len(pending_actions) = Len(gated)
        /\ Len(records) = Len(gated)
        /\ \A i \in 1..Len(gated) :
            /\ pending_actions[i].status = "pending"
            /\ pending_actions[i].agent_id = agent_id
            /\ pending_actions[i].tool_name = gated[i].tool_name
            /\ pending_actions[i].tool_arguments = gated[i].arguments
            /\ records[i].tool_name = gated[i].tool_name
            /\ records[i].arguments = gated[i].arguments

\* C8: for any model behaviour that returns a response with zero parsed tool
\* calls at some iteration k <= max_iterations (and tool calls before it),
\* the loop run terminates, reports iterations = k <= max_iterations, and its
\* final text is that response and is non-empty.
C8_ZeroCallResponseEndsRun ==
    \A i \in 1..Len(llm_log) :
        LET e == llm_log[i]
            k == Cardinality({j \in CallsOf(e.run, "iterate") : j <= i})
        IN  (/\ e.phase = "iterate"
             /\ e.ok
             /\ ~parse_tool_calls_raises(e.content)
             /\ parse_tool_calls(e.content) = <<>>)
                => /\ Len(returns) >= e.run
                   /\ returns[e.run].iterations = k
                   /\ k <= AGENTS_max_iterations(RunAgent(e.run))
                   /\ returns[e.run].content = e.content
                   /\ returns[e.run].content # EmptyText
                   /\ \A j \in 1..Len(llm_log) : j > i => llm_log[j].run # e.run

\* C8 case: the first run made tool calls in two iterations and ended on a
\* response without tool calls in its last allowed iteration
C8_Witness ==
    /\ Len(returns) >= 1
    /\ returns[1].iterations = AGENTS_max_iterations(request.agent_id)
    /\ Len(returns[1].tools_executed) >= 2
    /\ CallsOf(1, "final") = {}
    /\ Cardinality(CallsOf(1, "iterate")) = returns[1].iterations

\* a fenced block the spec calls a well-formed request: a name and an
\* arguments object
WellFormed(b) == b.kind = "call" /\ b.arguments \in {"object", "object_badvalue"}

\* every model call of run r answered, with at least one well-formed tool call
AlwaysToolCalls(r) ==
    \A i \in 1..Len(llm_log) :
        llm_log[i].run = r =>
            /\ llm_log[i].ok
            /\ \E j \in 1..Len(llm_log[i].content.blocks) :
                   WellFormed(llm_log[i].content.blocks[j])

\* C9: for a model whose every response contains at least one well-formed
\* tool call, the loop run performs exactly max_iterations iterations
\* (max_iterations model calls), then issues exactly one further finalizing
\* model call and terminates; it never makes more than max_iterations + 1
\* model calls.
C9_ExhaustionThenOneFinalCall ==
    \A r \in 1..run :
        /\ Cardinality(CallsOf(r, "iterate")) + Cardinality(CallsOf(r, "final"))
               <= AGENTS_max_iterations(RunAgent(r)) + 1
        /\ (RunOver(r) /\ AlwaysToolCalls(r))
               => /\ Cardinality(CallsOf(r, "iterate")) = AGENTS_max_iterations(RunAgent(r))
                  /\ Cardinality(CallsOf(r, "final")) = 1

\* C10: within one chat request the loop runs at most twice: a second run
\* happens iff the first run's handoff target is present and differs from the
\* routed agent, it is run for that target, and the second run's own handoff
\* target is never followed.
C10_AtMostOneHandoffHop ==
    /\ run \in 0..2
    /\ Len(returns) <= 2
    /\ \A i \in 1..Len(llm_log) : llm_log[i].run \in 1..2
    /\ run = 2 <=> /\ Len(returns) >= 1
                   /\ returns[1].handoff_to # None
                   /\ returns[1].handoff_to # request.agent_id
    /\ run = 2 => /\ agent_id = returns[1].handoff_to
                  /\ messages[1] = ChatMessage("system",
                         [kind |-> "system_prompt", agent |-> returns[1].handoff_to])
    /\ Len(returns) = 2 => /\ returns[2].agent_id = returns[1].handoff_to
                           /\ pc = "done"

\* C10 case: the second run itself ended on a handoff to another agent and
\* the request was answered
C10_Witness ==
    /\ Len(returns) = 2
    /\ returns[2].handoff_to # None
    /\ returns[2].handoff_to # returns[2].agent_id
    /\ pc = "done"

(***************************************************************************)
(* Router (agents/orchestrator.py)                                         *)
(***************************************************************************)

\* str.lower() of one character
LowerChar(c) ==
    CASE c = "A" -> "a" []
          c = "B" -> "b" []
          c = "C" -> "c" []
          c = "D" -> "d" []
          c = "E" -> "e" []
          c = "F" -> "f" []
          c = "G" -> "g" []
          c = "H" -> "h" []
          c = "I" -> "i" []
          c = "J" -> "j" []
          c = "K" -> "k" []
          c = "L" -> "l" []
          c = "M" -> "m" []
          c = "N" -> "n" []
          c = "O" -> "o" []
          c = "P" -> "p" []
          c = "Q" -> "q" []
          c = "R" -> "r" []
          c = "S" -> "s" []
          c = "T" -> "t" []
          c = "U" -> "u" []
          c = "V" -> "v" []
          c = "W" -> "w" []
          c = "X" -> "x" []
          c = "Y" -> "y" []
          c = "Z" -> "z"
      [] OTHER -> c

\* str.lower() of a text given as the sequence of its characters
str_lower(s) == [i \in 1..Len(s) |-> LowerChar(s[i])]

\* Python's `kw in s` on texts
Contains(s, kw) ==
    \E i \in 0..(Len(s) - Len(kw)) : SubSeq(s, i + 1, i + Len(kw)) = kw

\* orchestrator.py: _KEYWORD_RULES, in declared order
_KEYWORD_RULES ==
    <<
      [agent_id |-> "thinker",
       keywords |-> <<
            <<"b", "i", "g", " ", "p", "i", "c", "t", "u", "r", "e">>,
            <<"w", "h", "a", "t", " ", "d", "o", " ", "w", "e", " ", "k", "n", "o", "w">>,
            <<"s", "u", "m", "m", "a", "r", "i", "z", "e", " ", "e", "v", "e", "r", "y", "t", "h", "i", "n", "g">>,
            <<"f", "u", "l", "l", " ", "a", "n", "a", "l", "y", "s", "i", "s">>,
            <<"w", "h", "e", "r", "e", " ", "d", "o", "e", "s", " ", "t", "h", "i", "s", " ", "c", "o", "m", "e", " ", "f", "r", "o", "m">>,
            <<"t", "r", "a", "c", "e">>,
            <<"c", "r", "o", "s", "s", "-", "r", "e", "f", "e", "r", "e", "n", "c", "e">>,
            <<"i", "n", "v", "e", "s", "t", "i", "g", "a", "t", "e">>,
            <<"c", "o", "n", "n", "e", "c", "t", " ", "t", "h", "e", " ", "d", "o", "t", "s">>,
            <<"a", "l", "l", " ", "s", "o", "u", "r", "c", "e", "s">>,
            <<"c", "o", "m", "p", "r", "e", "h", "e", "n", "s", "i", "v", "e", " ", "v", "i", "e", "w">>,
            <<"d", "e", "e", "p", " ", "d", "i", "v", "e">>,
            <<"s", "o", "u", "r", "c", "e", " ", "m", "a", "p">>,
            <<"w", "h", "a", "t", "'", "s", " ", "m", "i", "s", "s", "i", "n", "g">>>>],
      [agent_id |-> "risk",
       keywords |-> <<
            <<"r", "i", "s", "k">>,
            <<"b", "l", "o", "c", "k", "e", "r">>,
            <<"b", "l", "o", "c", "k", "e", "d">>,
            <<"m", "i", "t", "i", "g", "a", "t", "i", "o", "n">>,
            <<"t", "h", "r", "e", "a", "t">>,
            <<"v", "u", "l", "n", "e", "r", "a", "b", "i", "l", "i", "t", "y">>,
            <<"e", "s", "c", "a", "l", "a", "t">>,
            <<"s", "e", "v", "e", "r", "i", "t", "y">>,
            <<"p", "r", "o", "b", "a", "b", "i", "l", "i", "t", "y">>,
            <<"i", "m", "p", "a", "c", "t", " ", "a", "n", "a", "l", "y", "s", "i", "s">>,
            <<"f", "m", "e", "a">>,
            <<"r", "i", "s", "k", " ", "m", "a", "t", "r", "i", "x">>,
            <<"w", "h", "a", "t", " ", "c", "o", "u", "l", "d", " ", "g", "o", " ", "w", "r", "o", "n", "g">>>>],
      [agent_id |-> "communications",
       keywords |-> <<
            <<"e", "m", "a", "i", "l">>,
            <<"s", "e", "n", "d", " ", "m", "e", "s", "s", "a", "g", "e">>,
            <<"s", "l", "a", "c", "k">>,
            <<"n", "o", "t", "i", "f", "y">>,
            <<"s", "t", "a", "k", "e", "h", "o", "l", "d", "e", "r", " ", "u", "p", "d", "a", "t", "e">>,
            <<"m", "e", "e", "t", "i", "n", "g", " ", "s", "u", "m", "m", "a", "r", "y">>,
            <<"a", "n", "n", "o", "u", "n", "c", "e", "m", "e", "n", "t">>,
            <<"n", "e", "w", "s", "l", "e", "t", "t", "e", "r">>,
            <<"s", "t", "a", "t", "u", "s", " ", "u", "p", "d", "a", "t", "e">>,
            <<"p", "o", "s", "t", " ", "t", "o">>,
            <<"d", "r", "a", "f", "t", " ", "e", "m", "a", "i", "l">>,
            <<"s", "e", "n", "d", " ", "t", "o">>,
            <<"s", "h", "a", "r", "e", " ", "w", "i", "t", "h">>>>],
      [agent_id |-> "discovery",
       keywords |-> <<
            <<"d", "i", "s", "c", "o", "v", "e", "r", "y">>,
            <<"r", "e", "s", "e", "a", "r", "c", "h">>,
            <<"m", "a", "r", "k", "e", "t">>,
            <<"c", "o", "m", "p", "e", "t", "i", "t", "o", "r">>,
            <<"o", "p", "p", "o", "r", "t", "u", "n", "i", "t", "y">>,
            <<"c", "u", "s", "t", "o", "m", "e", "r", " ", "n", "e", "e", "d">>,
            <<"j", "o", "b", "s", " ", "t", "o", " ", "b", "e", " ", "d", "o", "n", "e">>,
            <<"j", "t", "b", "d">>,
            <<"u", "s", "e", "r", " ", "i", "n", "t", "e", "r", "v", "i", "e", "w">>,
            <<"h", "y", "p", "o", "t", "h", "e", "s", "i", "s">>,
            <<"e", "x", "p", "e", "r", "i", "m", "e", "n", "t">>,
            <<"v", "a", "l", "i", "d", "a", "t", "e">>,
            <<"p", "o", "r", "t", "e", "r">>>>],
      [agent_id |-> "strategy",
       keywords |-> <<
            <<"p", "r", "i", "o", "r", "i", "t", "i">>,
            <<"r", "o", "a", "d", "m", "a", "p">>,
            <<"b", "a", "c", "k", "l", "o", "g">>,
            <<"o", "k", "r">>,
            <<"k", "p", "i">>,
            <<"s", "t", "r", "a", "t", "e", "g", "y">>,
            <<"s", "p", "r", "i", "n", "t">>,
            <<"e", "p", "i", "c">>,
            <<"s", "t", "o", "r", "y">>,
            <<"r", "i", "c", "e">>,
            <<"w", "s", "j", "f">>,
            <<"p", "l", "a", "n">>,
            <<"q", "u", "a", "r", "t", "e", "r">>,
            <<"i", "n", "i", "t", "i", "a", "t", "i", "v", "e">>,
            <<"f", "e", "a", "t", "u", "r", "e">>,
            <<"r", "e", "q", "u", "i", "r", "e", "m", "e", "n", "t">>,
            <<"s", "c", "o", "p", "e">>,
            <<"t", "i", "m", "e", "l", "i", "n", "e">>,
            <<"j", "i", "r", "a">>,
            <<"c", "r", "e", "a", "t", "e", " ", "i", "s", "s", "u", "e">>,
            <<"c", "r", "e", "a", "t", "e", " ", "t", "i", "c", "k", "e", "t">>,
            <<"c", "r", "e", "a", "t", "e", " ", "s", "t", "o", "r", "y">>,
            <<"d", "e", "p", "e", "n", "d", "e", "n", "c", "y">>,
            <<"a", "l", "i", "g", "n", "m", "e", "n", "t">>>>],
      [agent_id |-> "advisor",
       keywords |-> <<
            <<"b", "e", "s", "t", " ", "p", "r", "a", "c", "t", "i", "c", "e">>,
            <<"a", "d", "v", "i", "c", "e">>,
            <<"r", "e", "c", "o", "m", "m", "e", "n", "d">>,
            <<"h", "o", "w", " ", "s", "h", "o", "u", "l", "d">>,
            <<"w", "h", "a", "t", "'", "s", " ", "t", "h", "e", " ", "b", "e", "s", "t", " ", "w", "a", "y">>,
            <<"m", "e", "t", "h", "o", "d", "o", "l", "o", "g", "y">>,
            <<"f", "r", "a", "m", "e", "w", "o", "r", "k">>,
            <<"a", "g", "i", "l", "e">>,
            <<"s", "c", "r", "u", "m">>,
            <<"s", "a", "f", "e">>,
            <<"k", "a", "n", "b", "a", "n">>,
            <<"l", "e", "a", "n">>,
            <<"a", "r", "c", "h", "i", "t", "e", "c", "t", "u", "r", "e">>,
            <<"p", "a", "t", "t", "e", "r", "n">>,
            <<"a", "p", "p", "r", "o", "a", "c", "h">>,
            <<"o", "p", "i", "n", "i", "o", "n">>,
            <<"g", "u", "i", "d", "a", "n", "c", "e">>,
            <<"i", "n", "d", "u", "s", "t", "r", "y", " ", "s", "t", "a", "n", "d", "a", "r", "d">>,
            <<"b", "e", "n", "c", "h", "m", "a", "r", "k">>>>]
    >>

\* faulty variant: the rules are scanned from the last declared to the first
RECURSIVE scan_rules_backwards(_, _)
scan_rules_backwards(lower, k) ==
    IF k < 1 THEN None
    ELSE IF \E j \in 1..Len(_KEYWORD_RULES[k].keywords) :
                Contains(lower, _KEYWORD_RULES[k].keywords[j])
         THEN _KEYWORD_RULES[k].agent_id
         ELSE scan_rules_backwards(lower, k - 1)

\* faulty variant of route_by_keywords: the last matching rule wins
route_by_keywords_LastMatch(text) ==
    scan_rules_backwards(str_lower(text), Len(_KEYWORD_RULES))

\* orchestrator.py 75-80: the scan from rule k on; a rule matches when any of
\* its phrases occurs in the lower-cased message
RECURSIVE scan_rules(_, _)
scan_rules(lower, k) ==
    IF k > Len(_KEYWORD_RULES) THEN None
    ELSE IF \E j \in 1..Len(_KEYWORD_RULES[k].keywords) :
                Contains(lower, _KEYWORD_RULES[k].keywords[j])
         THEN _KEYWORD_RULES[k].agent_id
         ELSE scan_rules(lower, k + 1)

\* orchestrator.py: route_by_keywords
route_by_keywords(text) == scan_rules(str_lower(text), 1)

\* characters str.strip() removes
Whitespace == {" ", "\n", "\t"}

\* str.lstrip()
RECURSIVE lstrip(_)
lstrip(s) == IF s # <<>> /\ Head(s) \in Whitespace THEN lstrip(Tail(s)) ELSE s

\* str.rstrip(chars)
RECURSIVE rstrip(_, _)
rstrip(s, chars) ==
    IF s # <<>> /\ s[Len(s)] \in chars THEN rstrip(SubSeq(s, 1, Len(s) - 1), chars) ELSE s

\* str.strip()
strip(s) == rstrip(lstrip(s), Whitespace)

\* agents/types.py: AgentId(value); None stands for the ValueError raised on a
\* value that is no member
AgentIdOf(s) ==
    CASE s = <<"s", "t", "r", "a", "t", "e", "g", "y">> -> "strategy"
      [] s = <<"d", "i", "s", "c", "o", "v", "e", "r", "y">> -> "discovery"
      [] s = <<"r", "i", "s", "k">> -> "risk"
      [] s = <<"c", "o", "m", "m", "u", "n", "i", "c", "a", "t", "i", "o", "n", "s">> -> "communications"
      [] s = <<"a", "d", "v", "i", "s", "o", "r">> -> "advisor"
      [] s = <<"t", "h", "i", "n", "k", "e", "r">> -> "thinker"
      [] OTHER -> None

\* most words in a routed message
MaxWords == 2

\* words of the routed messages: one word per keyword rule (in mixed case,
\* or holding the phrase inside a longer word), the two words of a two-word
\* phrase, a word no rule knows
Vocabulary ==
    {<<"R", "o", "a", "d", "m", "a", "p">>,
     <<"R", "I", "S", "K">>,
     <<"e", "m", "a", "i", "l">>,
     <<"R", "e", "t", "r", "a", "c", "e", "d">>,
     <<"h", "e", "l", "l", "o">>,
     <<"m", "a", "r", "k", "e", "t">>,
     <<"a", "g", "i", "l", "e">>,
     <<"B", "i", "g">>,
     <<"p", "i", "c", "t", "u", "r", "e">>,
     <<"h", "i", "s", "t", "o", "r", "y">>}

\* " ".join(words)
RECURSIVE Join(_)
Join(words) ==
    IF words = <<>> THEN <<>>
    ELSE IF Len(words) = 1 THEN words[1]
    ELSE words[1] \o <<" ">> \o Join(Tail(words))

\* the message "what's our roadmap for Q3"
RoadmapMessage == <<"w", "h", "a", "t", "'", "s", " ", "o", "u", "r", " ", "r", "o", "a", "d", "m", "a", "p", " ", "f", "o", "r", " ", "Q", "3">>

\* the messages handed to route_message
Messages == {Join(w) : w \in SeqUpTo(Vocabulary, MaxWords)} \cup {RoadmapMessage}

\* what the classification call may come back with: a reply text
RouterReplies ==
    {<<"r", "i", "s", "k">>,
     <<"A", "d", "v", "i", "s", "o", "r", ".">>,
     <<" ", "t", "h", "i", "n", "k", "e", "r", "\n">>,
     <<"r", "i", "s", "k", " ", "a", "g", "e", "n", "t">>,
     <<"r", "i", "s", "k", " ", ".">>,
     <<" ", " ">>,
     <<"d", "i", "s", "c", "o", "v", "e", "r", "y", ".", ".", ".">>,
     <<"c", "o", "m", "m", "u", "n", "i", "c", "a", "t", "i", "o", "n", "s">>,
     <<" ", "R", "i", "s", "k", "!", " ">>,
     <<"a", "d", "v", "i", "s", "o", "r", ",">>}

\* exceptions the provider call raises: ValueError (unsupported provider,
\* empty content, a body that is no JSON), KeyError (a missing key of the
\* body), HTTPStatusError (raise_for_status), TransportError (connection
\* refused, timeout), IndexError (an empty choices list)
LlmErrors == {"ValueError", "KeyError", "HTTPStatusError", "TransportError", "IndexError"}

\* the outcomes of the classification call
RouteLlmOutcomes ==
    {[kind |-> "reply", text |-> t] : t \in RouterReplies}
        \cup {[kind |-> e, text |-> <<>>] : e \in LlmErrors}

\* orchestrator.py 117: except (ValueError, KeyError)
route_by_llm_caught == {"ValueError", "KeyError"}

\* orchestrator.py 104-118: route_by_llm on an outcome of its model call; the
\* result is the agent returned, or raised when the exception propagates
route_by_llm(outcome) ==
    IF outcome.kind = "reply"
    THEN LET agent_name == rstrip(str_lower(strip(outcome.text)), {"."})
         IN  IF AgentIdOf(agent_name) # None
             THEN [raised |-> FALSE, agent |-> AgentIdOf(agent_name)]
             ELSE [raised |-> FALSE, agent |-> "strategy"]
    ELSE IF outcome.kind \in route_by_llm_caught
         THEN [raised |-> FALSE, agent |-> "strategy"]
         ELSE [raised |-> TRUE, agent |-> None]

\* faulty variant: an explicit selection is ignored
explicit_selected_Never(explicit) == FALSE

\* orchestrator.py 139: explicit_agent is not None
explicit_selected(explicit) == explicit # None

\* the variables route_message leaves alone
notRouteVars ==
    <<gateVars, request, chatVars, loopVars, llm_log, exec_log, gate_log,
      returns, emitted, ragVars, configVars, pairVars, chunkVars, actionVars>>

InitRoute ==
    /\ message \in Messages
    /\ explicit_agent \in AgentId \cup {None}
    /\ route_result = None
    /\ route_log = <<>>
    /\ RAG_MAX_TOKENS = 4000
    /\ knowledge_docs = <<>>
    /\ confluence_enabled = FALSE
    /\ keywords = <<>>
    /\ all_docs = <<>>
    /\ rag_result = None
    /\ rag_log = <<>>
    /\ llm_config = None
    /\ network_calls = <<>>
    /\ procs = <<>>
    /\ heard = <<>>
    /\ chunk_words = 0
    /\ chunk_size = 0
    /\ overlap = 0
    /\ start = 0
    /\ chunk_out = <<>>
    /\ action = None
    /\ action_log = <<>>
    /\ pc = "route"
    /\ gate_in = None
    /\ gate_out = None
    /\ request = None
    /\ run = 0
    /\ result = None
    /\ chat_response = None
    /\ agent_id = None
    /\ iterations = 0
    /\ messages = <<>>
    /\ response_text = EmptyText
    /\ tool_calls = <<>>
    /\ tool_result_parts = <<>>
    /\ tools_executed = <<>>
    /\ pending_actions = <<>>
    /\ llm_log = <<>>
    /\ exec_log = <<>>
    /\ gate_log = <<>>
    /\ returns = <<>>
    /\ emitted = 0

\* orchestrator.py 139-140: an explicit selection is returned as it is
RouteExplicit ==
    /\ pc = "route"
    /\ explicit_selected(explicit_agent)
    /\ route_result' = explicit_agent
    /\ pc' = "routed"
    /\ UNCHANGED <<message, explicit_agent, route_log, notRouteVars>>

\* orchestrator.py 142-148: the keyword scan; its match is returned, and
\* without a match the classification call is issued
RouteKeywords ==
    /\ pc = "route"
    /\ ~explicit_selected(explicit_agent)
    /\ route_log' = Append(route_log, [step |-> "route_by_keywords"])
    /\ IF route_by_keywords(message) # None
       THEN route_result' = route_by_keywords(message) /\ pc' = "routed"
       ELSE route_result' = route_result /\ pc' = "route_llm"
    /\ UNCHANGED <<message, explicit_agent, notRouteVars>>

\* orchestrator.py 104-118 and 148: the classification call comes back, with
\* a reply or an exception, and route_by_llm's result is route_message's
RouteLlm ==
    /\ pc = "route_llm"
    /\ \E outcome \in RouteLlmOutcomes :
        /\ route_log' = Append(route_log, [step |-> "llm_chat", outcome |-> outcome])
        /\ IF route_by_llm(outcome).raised
           THEN route_result' = route_result /\ pc' = "route_raised"
           ELSE route_result' = route_by_llm(outcome).agent /\ pc' = "routed"
    /\ UNCHANGED <<message, explicit_agent, notRouteVars>>

NextRoute ==
    \/ RouteExplicit
    \/ RouteKeywords
    \/ RouteLlm

SpecRoute == InitRoute /\ [][NextRoute]_vars

(***************************************************************************)
(* Properties of the router (checked under SpecRoute)                      *)
(***************************************************************************)

\* the model calls route_message has made
RouteModelCalls == SelectSeq(route_log, LAMBDA e : e.step = "llm_chat")

\* C11: route_message with an explicit agent returns that agent for every
\* message content, without running the keyword scan and without any model
\* call.
C11_ExplicitAgentReturned ==
    (explicit_agent # None /\ pc # "route")
        => /\ pc = "routed"
           /\ route_result = explicit_agent
           /\ route_log = <<>>

\* C11 case: a message full of risk keywords sent with advisor selected is
\* routed to advisor
C11_Witness ==
    /\ pc = "routed"
    /\ explicit_agent = "advisor"
    /\ Contains(str_lower(message), <<"r", "i", "s", "k">>)
    /\ route_result = "advisor"

\* rule k has a phrase occurring in the lower-cased message
RuleMatches(k) ==
    \E j \in 1..Len(_KEYWORD_RULES[k].keywords) :
        Contains(str_lower(message), _KEYWORD_RULES[k].keywords[j])

\* C12: with no explicit agent, a message whose lower-cased text contains a
\* phrase of keyword rule k and no phrase of any rule declared before k is
\* routed to rule k's agent (rule order: thinker, risk, communications,
\* discovery, strategy, advisor), deterministically and without a model
\* call; "what's our roadmap for Q3" routes to strategy with no model call.
C12_FirstMatchingRuleWins ==
    /\ [k \in 1..Len(_KEYWORD_RULES) |-> _KEYWORD_RULES[k].agent_id]
           = <<"thinker", "risk", "communications", "discovery", "strategy", "advisor">>
    /\ (explicit_agent = None /\ pc # "route")
        => /\ \A k \in 1..Len(_KEYWORD_RULES) :
                (RuleMatches(k) /\ \A j \in 1..(k - 1) : ~RuleMatches(j))
                    => /\ pc = "routed"
                       /\ route_result = _KEYWORD_RULES[k].agent_id
                       /\ RouteModelCalls = <<>>
           /\ message = RoadmapMessage
                => route_result = "strategy" /\ RouteModelCalls = <<>>

\* C12 case: a message holding a strategy phrase and a risk phrase went to
\* risk, the rule declared first
C12_Witness ==
    /\ pc = "routed"
    /\ explicit_agent = None
    /\ RuleMatches(2) /\ RuleMatches(5) /\ ~RuleMatches(1)
    /\ route_result = "risk"
    /\ RouteModelCalls = <<>>

\* the classification reply names a legal agent
ReplyParses(outcome) ==
    /\ outcome.kind = "reply"
    /\ AgentIdOf(rstrip(str_lower(strip(outcome.text)), {"."})) # None

\* C13: route_by_llm never propagates an error to its caller: whenever the
\* provider call itself fails (for any failure of the model call) or the
\* reply cannot be parsed as a legal agent identity, it returns the fixed
\* default agent 'strategy'.
C13_ClassificationNeverRaises ==
    /\ pc # "route_raised"
    /\ \A i \in 1..Len(RouteModelCalls) :
        ~ReplyParses(RouteModelCalls[i].outcome)
            => pc = "routed" /\ route_result = "strategy"

\* trailing punctuation of a reply
TrailingPunctuation == {".", "!", ","}

\* the agent a reply names: its text without the surrounding whitespace and
\* the trailing punctuation, in lower case
NamedAgent(text) == AgentIdOf(rstrip(str_lower(strip(text)), TrailingPunctuation))

\* C29: tier-2 classification parses the model's reply case-insensitively
\* with trailing punctuation stripped: for every legal agent identity, a
\* reply consisting of that name in any letter case, surrounded by whitespace
\* and followed by trailing punctuation (such as '.', '!' or ','), routes to
\* that agent rather than to the default.
C29_ReplyWithPunctuationRoutes ==
    \A i \in 1..Len(RouteModelCalls) :
        LET outcome == RouteModelCalls[i].outcome
        IN  (outcome.kind = "reply" /\ NamedAgent(outcome.text) # None)
                => pc = "routed" /\ route_result = NamedAgent(outcome.text)

(***************************************************************************)
(* Error handling of the loop (checked under Spec) and totality of the    *)
(* gate (checked under SpecGate)                                           *)
(***************************************************************************)

\* the tool-result blocks of the current run: those of the iteration under
\* way and those already folded into a user message of the conversation
ResultParts ==
    {tool_result_parts[i] : i \in 1..Len(tool_result_parts)}
        \cup UNION {{messages[i].content.parts[j] : j \in 1..Len(messages[i].content.parts)} :
                      i \in {k \in 1..Len(messages) :
                                /\ "kind" \in DOMAIN messages[k].content
                                /\ messages[k].content.kind = "tool_results"}}

\* C15: a failing tool invocation never aborts a loop run: whenever a
\* gate-approved tool call fails (backend error status, transport exception,
\* unknown tool name, or arguments the invoker cannot process), the loop
\* appends a record with status 'failed', folds the error text into that
\* iteration's tool-result message, and goes on to process the remaining
\* tool calls and the next iteration.
C15_FailedInvocationNeverAborts ==
    LET invoked == RunInvocations
        records == RecordsWith({"executed", "failed"})
    IN  /\ ~(/\ pc = "raised"
             /\ tool_calls # <<>>
             /\ RequestGate(Head(tool_calls).name) = "execute")
        /\ \A i \in 1..Len(invoked) :
            invoked[i].outcome # "ok"
                => /\ Len(records) >= i
                   /\ records[i].tool_name = invoked[i].tool_name
                   /\ records[i].status = "failed"
                   /\ records[i].result
                        = execute_tool(invoked[i].tool_name, invoked[i].outcome).content
                   /\ [kind |-> "result", tool |-> invoked[i].tool_name,
                       content |-> records[i].result] \in ResultParts

\* C16: if a language-model call made by the loop (in any iteration or the
\* finalizing call) fails, the loop run fails as a whole: the call is not
\* retried, no further model call or tool invocation is made, and no Agent
\* Response is returned to the caller.
C16_ModelCallFailureFailsRun ==
    \A i \in 1..Len(llm_log) :
        ~llm_log[i].ok
            => /\ i = Len(llm_log)
               /\ Len(exec_log) = llm_log[i].invoked
               /\ Len(gate_log) = llm_log[i].decided
               /\ pc = "raised"
               /\ Len(returns) < llm_log[i].run
               /\ chat_response = None

\* C16 case: the finalizing call failed after the iterations had invoked
\* tools
C16_Witness ==
    /\ llm_log # <<>>
    /\ ~llm_log[Len(llm_log)].ok
    /\ llm_log[Len(llm_log)].phase = "final"
    /\ exec_log # <<>>
    /\ pc = "raised"

CallBlocksOf(content) == SelectSeq(content.blocks, LAMBDA b : b.kind = "call")

\* entry i of llm_log is a response of an iteration that came back and holds
\* no tool call
ZeroCallResponse(i) ==
    /\ llm_log[i].phase = "iterate"
    /\ llm_log[i].ok
    /\ ~parse_tool_calls_raises(llm_log[i].content)
    /\ CallBlocksOf(llm_log[i].content) = <<>>

\* the history loop run r starts from
RunHistory(r) == IF r = 1 THEN request.history ELSE <<>>

\* s is a prefix of t
IsPrefix(s, t) == Len(s) <= Len(t) /\ s = SubSeq(t, 1, Len(s))

\* C23: the finalizing model call's output is never scanned for tool calls:
\* whatever tool-call blocks it contains, none is gate-evaluated, executed,
\* queued or recorded, the records and pending lists are unchanged by the
\* finalizing step, no further model call follows it, and the final text is
\* that output with every tool block removed.
C23_FinalOutputNeverScanned ==
    \A i \in 1..Len(llm_log) :
        LET e == llm_log[i]
        IN  (e.phase = "final" /\ e.ok)
                => /\ Len(returns) >= e.run
                   /\ returns[e.run].content.blocks = <<>>
                   /\ returns[e.run].content.markers = e.content.markers
                   /\ returns[e.run].content.prose = e.content.prose
                   /\ Len(returns[e.run].tools_executed) = e.recorded
                   /\ Len(returns[e.run].pending_actions) = e.queued
                   /\ \A j \in 1..Len(gate_log) : j > e.decided => gate_log[j].run # e.run
                   /\ \A j \in 1..Len(exec_log) : j > e.invoked => exec_log[j].run # e.run
                   /\ \A j \in 1..Len(llm_log) : j > i => llm_log[j].run # e.run

\* C23 case: the finalizing call of the first run answered with a tool call
\* and the run returned
C23_Witness ==
    /\ Len(returns) >= 1
    /\ \E i \in CallsOf(1, "final") :
        /\ llm_log[i].ok
        /\ CallBlocksOf(llm_log[i].content) # <<>>

\* C24: a response with zero parsed tool calls stops the loop immediately: it
\* becomes the final text, nothing is appended to the conversation for that
\* iteration, no later iteration runs, and in a run that returns the
\* finalizing model call is issued if and only if no iteration produced a
\* zero-tool-call response (so the number of model calls is iterations, plus
\* one exactly in the exhausted case).
C24_ZeroCallStopsAndFinalizeIffNone ==
    /\ \A i \in 1..Len(llm_log) :
        ZeroCallResponse(i)
            => LET e == llm_log[i]
                   k == Cardinality({j \in CallsOf(e.run, "iterate") : j <= i})
               IN  /\ Len(returns) >= e.run
                   /\ returns[e.run].content = e.content
                   /\ \A j \in 1..Len(llm_log) : j > i => llm_log[j].run # e.run
                   /\ e.run = run
                        => Len(messages) = Len(RunHistory(run)) + 2 + 2 * (k - 1)
    /\ \A r \in 1..run :
        LET zero == {i \in CallsOf(r, "iterate") : ZeroCallResponse(i)}
            final == CallsOf(r, "final")
        IN  /\ final # {} => zero = {}
            /\ Cardinality(final) <= 1
            /\ Len(returns) >= r
                => /\ final # {} <=> zero = {}
                   /\ Cardinality(CallsOf(r, "iterate")) = returns[r].iterations
                   /\ final # {} => returns[r].iterations = AGENTS_max_iterations(RunAgent(r))

\* C24 case: the second iteration of the first run answered without tool
\* calls and the request was answered with no finalizing call
C24_Witness ==
    /\ pc = "done"
    /\ run = 1
    /\ Cardinality(CallsOf(1, "iterate")) = 2
    /\ CallsOf(1, "final") = {}
    /\ Len(messages) = Len(request.history) + 4

\* the tool calls of the responses of run r that came back, in the order of
\* the responses and, within a response, of the text
RECURSIVE CallsUpTo(_, _)
CallsUpTo(r, n) ==
    IF n = 0 THEN <<>>
    ELSE CallsUpTo(r, n - 1)
            \o (IF /\ llm_log[n].run = r
                   /\ llm_log[n].phase = "iterate"
                   /\ llm_log[n].ok
                   /\ ~parse_tool_calls_raises(llm_log[n].content)
                THEN CallBlocksOf(llm_log[n].content)
                ELSE <<>>)

\* the calls the gate decided on in run r, in order
DecidedCalls(r) ==
    LET d == SelectSeq(gate_log, LAMBDA g : g.run = r)
    IN  [i \in 1..Len(d) |-> ToolCall(d[i].tool_name, d[i].arguments)]

\* C25: within one iteration the parsed tool calls are processed one at a
\* time in the order they appear in the response text: the Tool Execution
\* Records appended in that iteration are in the same order as the calls, a
\* tool invocation starts only after the previous call of the iteration has
\* been fully handled, and the next model call starts only after all tool
\* calls of the iteration are handled.
C25_CallsHandledInTextOrder ==
    /\ \A r \in 1..run : IsPrefix(DecidedCalls(r), CallsUpTo(r, Len(llm_log)))
    /\ run >= 1
        => /\ IsPrefix([i \in 1..Len(tools_executed) |->
                           ToolCall(tools_executed[i].tool_name, tools_executed[i].arguments)],
                       DecidedCalls(run))
           /\ Len(tools_executed) >= Len(DecidedCalls(run)) - 1
           /\ pc # "raised" => Len(tools_executed) = Len(DecidedCalls(run))
    /\ \A i \in 1..Len(llm_log) :
        Cardinality({j \in 1..llm_log[i].decided : gate_log[j].run = llm_log[i].run})
            = Len(CallsUpTo(llm_log[i].run, i - 1))

\* C25 case: a response held two different calls, both were handled and the
\* next model call was made
C25_Witness ==
    \E i \in 1..Len(llm_log) :
        /\ llm_log[i].phase = "iterate"
        /\ Len(CallBlocksOf(llm_log[i].content)) = 2
        /\ CallBlocksOf(llm_log[i].content)[1] # CallBlocksOf(llm_log[i].content)[2]
        /\ \E j \in 1..Len(llm_log) : j > i /\ llm_log[j].run = llm_log[i].run
        /\ llm_log[i].run = run
        /\ Len(tools_executed) >= 2

\* one step of the conversation: a new run starts it as [system] + history +
\* [user message]; within a run it changes only by two messages appended, the
\* response of the model as an assistant message and one user message with
\* the tool results of every call of the response; and every iteration with
\* tool calls, once its calls are handled, does append them
ConversationStep ==
    /\ run' # run
        => /\ Len(messages') = Len(RunHistory(run')) + 2
           /\ messages'[1].role = "system"
           /\ SubSeq(messages', 2, Len(messages') - 1) = RunHistory(run')
           /\ messages'[Len(messages')].role = "user"
    /\ (run' = run /\ messages' # messages)
        => /\ Len(messages') = Len(messages) + 2
           /\ SubSeq(messages', 1, Len(messages)) = messages
           /\ messages'[Len(messages) + 1] = ChatMessage("assistant", response_text)
           /\ response_text = llm_log[Len(llm_log)].content
           /\ messages'[Len(messages) + 2].role = "user"
           /\ messages'[Len(messages) + 2].content.kind = "tool_results"
           /\ Len(messages'[Len(messages) + 2].content.parts)
                = Len(CallBlocksOf(response_text))
           /\ CallBlocksOf(response_text) # <<>>
    /\ (run' = run /\ pc = "tools" /\ pc' \in {"llm", "finalize"})
        => messages' # messages

\* C26: the conversation of a loop run starts as [system] + history + [user
\* message] and only grows: each iteration with at least one tool call
\* appends exactly two messages, first an assistant message holding the raw
\* model response and then one user message holding all tool-result text of
\* that iteration, and no existing message is ever removed, reordered or
\* changed.
C26_ConversationOnlyGrows == [][ConversationStep]_vars

\* C26 case: two iterations with tool calls have extended the conversation
\* of the first run
C26_Witness ==
    /\ run = 1
    /\ Len(messages) = Len(request.history) + 6
    /\ messages[Len(messages)].content.kind = "tool_results"

\* C27: within one loop run the sequence of Tool Execution Records and the
\* sequence of Pending Actions are append-only: at every step the earlier
\* sequence is a prefix of the later one, and the status of a record or
\* pending action already appended (e.g. 'pending') is never changed by the
\* loop.
C27_RecordsAppendOnly ==
    [][run' = run => /\ IsPrefix(tools_executed, tools_executed')
                     /\ IsPrefix(pending_actions, pending_actions')]_vars

\* C27 case: a pending action and its record are followed by later records
\* and a second pending action
C27_Witness ==
    /\ Len(pending_actions) >= 2
    /\ Len(tools_executed) >= 3
    /\ tools_executed[1].status = "pending"
    /\ pending_actions[1].status = "pending"

\* the agent a marker spelling names, in any letter case
MarkerAgent(m) ==
    CASE m \in {"risk", "RISK"} -> "risk"
      [] m \in {"advisor", "ADVISOR"} -> "advisor"
      [] OTHER -> None

\* C28: the handoff target of an Agent Response is set if and only if the
\* final text contains the marker [HANDOFF: <name>] with <name> one of the six
\* legal agent identities in any letter case, and it is then that identity;
\* markers naming anything else, and markers occurring only in intermediate
\* (tool-calling) responses, never produce a handoff target.
C28_HandoffIffLegalMarkerInFinalText ==
    \A r \in 1..Len(returns) :
        LET final == returns[r].content.markers
            named == {i \in 1..Len(final) : MarkerAgent(final[i]) # None}
        IN  /\ returns[r].handoff_to # None <=> named # {}
            /\ named # {}
                => \E i \in named :
                    /\ \A j \in named : i <= j
                    /\ returns[r].handoff_to = MarkerAgent(final[i])
            /\ returns[r].handoff_to \in AgentId \cup {None}

\* C28 case: a tool-calling response of the first run held a marker naming
\* risk, the final text held none, and the run returned without a target
C28_Witness ==
    /\ Len(returns) >= 1
    /\ returns[1].handoff_to = None
    /\ \E i \in CallsOf(1, "iterate") :
        /\ llm_log[i].ok
        /\ CallBlocksOf(llm_log[i].content) # <<>>
        /\ llm_log[i].content.markers = <<"risk">>

(***************************************************************************)
(* Knowledge retrieval (knowledge/rag.py)                                  *)
(***************************************************************************)

\* config.py: RAG_MAX_DOCS (default)
RAG_MAX_DOCS == 5

\* the first n elements of a list: s[:n]
Take(s, n) == SubSeq(s, 1, IF Len(s) < n THEN Len(s) ELSE n)

\* str.split(): the maximal runs of characters that are no whitespace
RECURSIVE split(_)
split(s) ==
    LET t == lstrip(s)
    IN  IF t = <<>> THEN <<>>
        ELSE LET ends == {i \in 1..Len(t) : t[i] \in Whitespace}
                 n == IF ends = {} THEN Len(t) + 1
                      ELSE CHOOSE i \in ends : \A j \in ends : i <= j
             IN  <<SubSeq(t, 1, n - 1)>> \o split(SubSeq(t, n, Len(t)))

\* str.split(sep) for a one-character separator: empty parts are kept
RECURSIVE split_on(_, _)
split_on(s, sep) ==
    LET at == {i \in 1..Len(s) : s[i] = sep}
    IN  IF at = {} THEN <<s>>
        ELSE LET n == CHOOSE i \in at : \A j \in at : i <= j
             IN  <<SubSeq(s, 1, n - 1)>> \o split_on(SubSeq(s, n + 1, Len(s)), sep)

\* rag.py 44: stop_words
stop_words ==
    {<<"t", "h", "e">>,
     <<"a">>,
     <<"a", "n">>,
     <<"i", "s">>,
     <<"a", "r", "e">>,
     <<"w", "a", "s">>,
     <<"w", "e", "r", "e">>,
     <<"w", "h", "a", "t">>,
     <<"h", "o", "w">>,
     <<"c", "a", "n">>,
     <<"d", "o">>,
     <<"i">>,
     <<"w", "e">>,
     <<"m", "y">>,
     <<"o", "u", "r">>}

\* faulty variant: the stop-word test does not lower-case the word
is_stop_word_CaseSensitive(w) == w \in stop_words

\* rag.py 45: w.lower() in stop_words
is_stop_word(w) == str_lower(w) \in stop_words

\* rag.py 30-46: extract_keywords on an outcome of its model call: the
\* comma-separated parts of the reply, or on any exception the first words
\* of the message that are no stop words; three at most either way
extract_keywords(text, outcome) ==
    IF outcome.kind = "reply"
    THEN LET parts == split_on(strip(outcome.text), ",")
             stripped == [i \in 1..Len(parts) |-> strip(parts[i])]
         IN  Take(SelectSeq(stripped, LAMBDA kw : kw # <<>>), 3)
    ELSE Take(SelectSeq(split(text), LAMBDA w : ~is_stop_word(w)), 3)

\* A document content is abstracted to a text holding its words, followed by
\* pad filler characters that match no keyword, followed by "..." when dots
\* is set.
Content(text, pad, dots) == [text |-> text, pad |-> pad, dots |-> dots]

\* len(content)
ContentLen(c) == Len(c.text) + c.pad + (IF c.dots THEN 3 ELSE 0)

\* faulty variant: a content is never cut
truncate_Never(c) == c

\* rag.py 84-85 and 145-146: content[:1000] + "..." for a content of more
\* than 1000 characters (the texts here are shorter than 1000 characters)
truncate(c) ==
    IF ContentLen(c) > 1000
    THEN Content(c.text, 1000 - Len(c.text), TRUE)
    ELSE c

\* agents/types.py: RAGDocument; relevance is held in sixtieths
RAGDocument(source_type, source_id, content, relevance) ==
    [source_type |-> source_type, source_id |-> source_id,
     content |-> content, relevance |-> relevance]

\* faulty variant: a document is put ahead of the documents of its relevance
RECURSIVE insert_by_relevance_BeforeEquals(_, _)
insert_by_relevance_BeforeEquals(sorted, d) ==
    IF sorted = <<>> THEN <<d>>
    ELSE IF Head(sorted).relevance > d.relevance
         THEN <<Head(sorted)>> \o insert_by_relevance_BeforeEquals(Tail(sorted), d)
         ELSE <<d>> \o sorted

\* list.sort(key=relevance, reverse=True) inserts d into a sorted list: the
\* sort is stable, equal relevances keep their order
RECURSIVE insert_by_relevance(_, _)
insert_by_relevance(sorted, d) ==
    IF sorted = <<>> THEN <<d>>
    ELSE IF Head(sorted).relevance >= d.relevance
         THEN <<Head(sorted)>> \o insert_by_relevance(Tail(sorted), d)
         ELSE <<d>> \o sorted

\* list.sort(key=lambda d: d.relevance, reverse=True)
RECURSIVE sort_by_relevance(_)
sort_by_relevance(docs) ==
    IF docs = <<>> THEN <<>>
    ELSE insert_by_relevance(sort_by_relevance(SubSeq(docs, 1, Len(docs) - 1)),
                             docs[Len(docs)])

\* rag.py 133-134: the score of a chunk, in sixtieths: keywords occurring in
\* the lower-cased chunk over the number of keywords
chunk_score(chunk, kws) ==
    (Cardinality({i \in 1..Len(kws) :
                     Contains(str_lower(chunk.text), str_lower(kws[i]))}) * 60)
        \div (IF Len(kws) > 1 THEN Len(kws) ELSE 1)

\* faulty variant of best_of: a later chunk with an equal score replaces the
\* best one
RECURSIVE best_of_LastWins(_, _, _)
best_of_LastWins(chunks, kws, best) ==
    IF chunks = <<>> THEN best
    ELSE best_of_LastWins(Tail(chunks), kws,
            IF chunk_score(Head(chunks), kws) >= best.score
               /\ chunk_score(Head(chunks), kws) > 0
            THEN [score |-> chunk_score(Head(chunks), kws), chunk |-> Head(chunks)]
            ELSE best)

\* rag.py 128-138: the loop over the chunks; a chunk replaces the best one
\* only with a strictly greater score
RECURSIVE best_of(_, _, _)
best_of(chunks, kws, best) ==
    IF chunks = <<>> THEN best
    ELSE best_of(Tail(chunks), kws,
            IF chunk_score(Head(chunks), kws) > best.score
            THEN [score |-> chunk_score(Head(chunks), kws), chunk |-> Head(chunks)]
            ELSE best)

\* rag.py 120-125: the chunks of a document: its content_chunks list, that
\* list decoded from a JSON string, or the whole content when the string is
\* no JSON
chunks_of(doc) ==
    IF doc.kind = "chunks_text" THEN <<doc.content>> ELSE doc.content_chunks

\* rag.py 131-132: chunk.lower() raises on a chunk that is no string (and a
\* content_chunks string decoding to a number cannot be iterated)
document_raises(doc) == doc.kind = "bad_chunk"

\* rag.py 105-158: search_knowledge_base raises
search_knowledge_base_raises(kws, documents) ==
    /\ documents # <<>>
    /\ kws # <<>>
    /\ \E i \in 1..Len(documents) : document_raises(documents[i])

\* rag.py 119-154: the scored results, one per document with a score above 0
RECURSIVE kb_results(_, _)
kb_results(kws, documents) ==
    IF documents = <<>> THEN <<>>
    ELSE LET doc == Head(documents)
             best == best_of(chunks_of(doc), kws,
                             [score |-> 0, chunk |-> Content(<<>>, 0, FALSE)])
         IN  (IF best.score > 0
              THEN <<RAGDocument("file", doc.id, truncate(best.chunk), best.score)>>
              ELSE <<>>)
             \o kb_results(kws, Tail(documents))

\* rag.py 105-158: search_knowledge_base
search_knowledge_base(kws, documents) ==
    IF documents = <<>> \/ kws = <<>> THEN <<>>
    ELSE Take(sort_by_relevance(kb_results(kws, documents)), RAG_MAX_DOCS)

\* rag.py 66-97: search_confluence raises: data.get on a payload that is a
\* JSON scalar, page.get on an entry that is no object, "<" in body on a
\* body that is null
search_confluence_raises(outcome) ==
    outcome.kind \in {"scalar", "bad_item", "null_body"}

\* rag.py 74-93: the documents of the pages, relevance 1.0 - i * 0.15
RECURSIVE confluence_pages(_, _)
confluence_pages(pages, i) ==
    IF pages = <<>> THEN <<>>
    ELSE <<RAGDocument("confluence", <<"conf", i>>, truncate(Head(pages)), 60 - i * 9)>>
             \o confluence_pages(Tail(pages), i + 1)

\* rag.py 54-97: search_confluence on an outcome of execute_tool: nothing on
\* is_error, else the first RAG_MAX_DOCS pages of the payload
search_confluence(outcome) ==
    IF outcome.kind \in {"http_error", "exception"} THEN <<>>
    ELSE confluence_pages(Take(outcome.pages, RAG_MAX_DOCS), 0)

\* faulty variant of cap_docs: the budget is tested after the document is
\* taken
RECURSIVE cap_docs_Overshoot(_, _, _)
cap_docs_Overshoot(docs, total_chars, max_chars) ==
    IF docs = <<>> \/ total_chars > max_chars THEN <<>>
    ELSE <<Head(docs)>> \o cap_docs_Overshoot(Tail(docs),
                               total_chars + ContentLen(Head(docs).content), max_chars)

\* faulty variant of cap_docs: a document that would pass the budget is
\* skipped and the loop goes on
RECURSIVE cap_docs_SkipOverflow(_, _, _)
cap_docs_SkipOverflow(docs, total_chars, max_chars) ==
    IF docs = <<>> THEN <<>>
    ELSE IF total_chars + ContentLen(Head(docs).content) > max_chars
    THEN cap_docs_SkipOverflow(Tail(docs), total_chars, max_chars)
    ELSE <<Head(docs)>> \o cap_docs_SkipOverflow(Tail(docs),
                               total_chars + ContentLen(Head(docs).content), max_chars)

\* rag.py 203-208: the loop that takes documents until one would pass the
\* budget
RECURSIVE cap_docs(_, _, _)
cap_docs(docs, total_chars, max_chars) ==
    IF docs = <<>> THEN <<>>
    ELSE IF total_chars + ContentLen(Head(docs).content) > max_chars THEN <<>>
    ELSE <<Head(docs)>> \o cap_docs(Tail(docs),
                               total_chars + ContentLen(Head(docs).content), max_chars)

\* most documents in the knowledge base of a request, and most pages in a
\* search payload
MaxDocs == 2

\* the messages handed to retrieve_context
RagMessages ==
    {<<>>,
     <<"W", "h", "a", "t", " ", "i", "s", " ", "t", "h", "e">>,
     <<"b", "e", "t", "a">>,
     <<"W", "h", "a", "t", " ", "i", "s", " ", "t", "h", "e", " ", "r", "i", "s", "k">>,
     <<"r", "i", "s", "k", " ", " ", "B", "E", "T", "A">>,
     <<"R", "i", "s", "k", " ", "b", "e", "t", "a", " ", "G", "a", "m", "m", "a", " ", "r", "o", "a", "d", "m", "a", "p">>}

\* replies of the keyword-extraction call
KeywordReplies ==
    {<<"b", "e", "t", "a">>,
     <<"r", "i", "s", "k", ",", " ", "b", "e", "t", "a">>,
     <<" ", "R", "i", "s", "k", " ", ",", "b", "e", "t", "a", ",", ",", " ", "g", "a", "m", "m", "a", " ", ",", " ", "r", "o", "a", "d", "m", "a", "p", " ">>,
     <<",", ",">>}

\* the outcomes of the keyword-extraction call
KeywordOutcomes ==
    {[kind |-> "reply", text |-> t] : t \in KeywordReplies}
        \cup {[kind |-> e, text |-> <<>>] : e \in LlmErrors}

\* chunks of the knowledge documents: the two of the documented example, a
\* chunk of 1500 characters, a chunk of exactly 1000 characters, a short one
ChunkAlphaBeta == Content(<<"a", "l", "p", "h", "a", " ", "b", "e", "t", "a">>, 0, FALSE)
ChunkGammaDelta == Content(<<"g", "a", "m", "m", "a", " ", "d", "e", "l", "t", "a">>, 0, FALSE)
ChunkLongRisk == Content(<<"r", "i", "s", "k">>, 1496, FALSE)
ChunkRiskBeta == Content(<<"R", "i", "s", "k", " ", "b", "e", "t", "a">>, 0, FALSE)
ChunkFullBeta == Content(<<"b", "e", "t", "a">>, 996, FALSE)

\* the knowledge documents of a request: well-formed ones, one whose
\* content_chunks is a string that is no JSON, one holding a chunk that is
\* no string
KnowledgeDocuments ==
    {[kind |-> "chunks", id |-> "doc_example",
      content_chunks |-> <<ChunkAlphaBeta, ChunkGammaDelta>>, content |-> ChunkAlphaBeta],
     [kind |-> "chunks", id |-> "doc_long",
      content_chunks |-> <<ChunkLongRisk, ChunkRiskBeta>>, content |-> ChunkLongRisk],
     [kind |-> "chunks", id |-> "doc_full",
      content_chunks |-> <<ChunkFullBeta>>, content |-> ChunkFullBeta],
     [kind |-> "chunks_text", id |-> "doc_text",
      content_chunks |-> <<>>, content |-> ChunkRiskBeta],
     [kind |-> "bad_chunk", id |-> "doc_bad",
      content_chunks |-> <<>>, content |-> ChunkAlphaBeta]}

\* page bodies of the search payload: a short one and one of 1200 characters
PageBodies == {Content(<<"R", "i", "s", "k", " ", "b", "e", "t", "a">>, 0, FALSE), Content(<<"r", "i", "s", "k">>, 1196, FALSE)}

\* one document more than a source hands back
ManyDocs == RAG_MAX_DOCS + 1

\* a page body, or a chunk, of 2000 characters
LongBody == Content(<<"r", "i", "s", "k">>, 1996, FALSE)

\* a search payload of ManyDocs pages with long bodies
ManyPages == [kind |-> "pages", pages |-> [i \in 1..ManyDocs |-> LongBody]]

\* the ids of the documents of a large knowledge base
ManyDocumentIds == <<"doc_m1", "doc_m2", "doc_m3", "doc_m4", "doc_m5", "doc_m6">>

\* a knowledge base of ManyDocs documents of one long chunk each
ManyDocuments ==
    [i \in 1..ManyDocs |->
        [kind |-> "chunks", id |-> ManyDocumentIds[i],
         content_chunks |-> <<LongBody>>, content |-> LongBody]]

\* the outcomes of the confluence_search invocation: an error status, an
\* exception inside execute_tool, a payload listing pages, a payload that is
\* a JSON scalar, a payload with an entry that is no object, a payload with
\* a page whose body is null, a payload of more pages than are kept
ConfluenceOutcomes ==
    {[kind |-> k, pages |-> <<>>] :
        k \in {"http_error", "exception", "scalar", "bad_item", "null_body"}}
        \cup {[kind |-> "pages", pages |-> p] : p \in SeqUpTo(PageBodies, MaxDocs)}
        \cup {ManyPages}

\* values of RAG_MAX_TOKENS (config.py, read from the environment): the
\* default and two smaller budgets
RagMaxTokens == {4000, 500, 250}

\* the variables retrieve_context leaves alone
notRagVars ==
    <<gateVars, request, chatVars, loopVars, llm_log, exec_log, gate_log,
      returns, emitted, explicit_agent, route_result, route_log, configVars,
      pairVars, chunkVars, actionVars>>

InitRag ==
    /\ message \in RagMessages
    /\ RAG_MAX_TOKENS \in RagMaxTokens
    /\ knowledge_docs \in SeqUpTo(KnowledgeDocuments, MaxDocs) \cup {ManyDocuments}
    /\ confluence_enabled \in BOOLEAN
    /\ keywords = <<>>
    /\ all_docs = <<>>
    /\ rag_result = None
    /\ rag_log = <<>>
    /\ llm_config = None
    /\ network_calls = <<>>
    /\ procs = <<>>
    /\ heard = <<>>
    /\ chunk_words = 0
    /\ chunk_size = 0
    /\ overlap = 0
    /\ start = 0
    /\ chunk_out = <<>>
    /\ action = None
    /\ action_log = <<>>
    /\ pc = "retrieve"
    /\ explicit_agent = None
    /\ route_result = None
    /\ route_log = <<>>
    /\ gate_in = None
    /\ gate_out = None
    /\ request = None
    /\ run = 0
    /\ result = None
    /\ chat_response = None
    /\ agent_id = None
    /\ iterations = 0
    /\ messages = <<>>
    /\ response_text = EmptyText
    /\ tool_calls = <<>>
    /\ tool_result_parts = <<>>
    /\ tools_executed = <<>>
    /\ pending_actions = <<>>
    /\ llm_log = <<>>
    /\ exec_log = <<>>
    /\ gate_log = <<>>
    /\ returns = <<>>
    /\ emitted = 0

\* rag.py 179-181: the keyword-extraction call comes back, with a reply or an
\* exception; without keywords nothing is retrieved
RetrieveKeywords ==
    /\ pc = "retrieve"
    /\ \E outcome \in KeywordOutcomes :
        /\ rag_log' = Append(rag_log, [step |-> "llm_chat", outcome |-> outcome])
        /\ keywords' = extract_keywords(message, outcome)
        /\ IF extract_keywords(message, outcome) = <<>>
           THEN rag_result' = <<>> /\ pc' = "retrieved"
           ELSE /\ rag_result' = rag_result
                /\ pc' = IF confluence_enabled THEN "retrieve_confluence"
                         ELSE "retrieve_local"
    /\ UNCHANGED <<message, RAG_MAX_TOKENS, knowledge_docs, confluence_enabled,
                   all_docs, notRagVars>>

\* rag.py 184-186: the confluence_search invocation comes back and
\* search_confluence turns its outcome into documents, or raises
RetrieveConfluence ==
    /\ pc = "retrieve_confluence"
    /\ \E outcome \in ConfluenceOutcomes :
        /\ rag_log' = Append(rag_log, [step |-> "execute_tool", outcome |-> outcome])
        /\ IF search_confluence_raises(outcome)
           THEN all_docs' = all_docs /\ pc' = "retrieve_raised"
           ELSE all_docs' = all_docs \o search_confluence(outcome) /\ pc' = "retrieve_local"
    /\ UNCHANGED <<message, RAG_MAX_TOKENS, knowledge_docs, confluence_enabled,
                   keywords, rag_result, notRagVars>>

\* rag.py 189-210: the knowledge base is searched, the documents of both
\* sources are sorted by relevance and cut to the budget
RetrieveLocal ==
    /\ pc = "retrieve_local"
    /\ IF knowledge_docs # <<>> /\ search_knowledge_base_raises(keywords, knowledge_docs)
       THEN /\ pc' = "retrieve_raised"
            /\ UNCHANGED <<all_docs, rag_result>>
       ELSE LET kb_docs == IF knowledge_docs # <<>>
                           THEN search_knowledge_base(keywords, knowledge_docs)
                           ELSE <<>>
                sorted == sort_by_relevance(all_docs \o kb_docs)
            IN  /\ all_docs' = sorted
                /\ rag_result' = cap_docs(sorted, 0, RAG_MAX_TOKENS * 4)
                /\ pc' = "retrieved"
    /\ UNCHANGED <<message, RAG_MAX_TOKENS, knowledge_docs, confluence_enabled,
                   keywords, rag_log, notRagVars>>

NextRag ==
    \/ RetrieveKeywords
    \/ RetrieveConfluence
    \/ RetrieveLocal

SpecRag == InitRag /\ [][NextRag]_vars

(***************************************************************************)
(* Properties of the retrieval (checked under SpecRag)                     *)
(***************************************************************************)

\* the outcome of the keyword-extraction call of this retrieval
KeywordOutcome == rag_log[1].outcome

\* the outcomes of the confluence_search invocations of this retrieval
ConfluenceCalls == SelectSeq(rag_log, LAMBDA e : e.step = "execute_tool")

\* the documents of the knowledge base among those found
KnowledgeFound == SelectSeq(all_docs, LAMBDA d : d.source_type = "file")

\* the sum of the content lengths of a list of documents
RECURSIVE TotalChars(_)
TotalChars(docs) ==
    IF docs = <<>> THEN 0
    ELSE ContentLen(Head(docs).content) + TotalChars(Tail(docs))

\* C18: keyword extraction never fails retrieval: on any failure of the
\* keyword-extraction model call, extract_keywords returns the first (at most
\* three) whitespace-separated words of the message that are not in the
\* stop-word set (compared in lower case), retrieve_context proceeds with
\* them, and the result always has at most three keywords.
C18_KeywordFallback ==
    rag_log # <<>>
        => /\ Len(keywords) <= 3
           /\ pc # "retrieve"
           /\ keywords = <<>> => pc = "retrieved" /\ rag_result = <<>>
           /\ KeywordOutcome.kind # "reply"
                => LET words == split(message)
                       kept == {i \in 1..Len(words) : str_lower(words[i]) \notin stop_words}
                   IN  /\ Len(keywords) = IF Cardinality(kept) < 3 THEN Cardinality(kept) ELSE 3
                       /\ \A k \in 1..Len(keywords) :
                            \E i \in kept :
                                /\ Cardinality({j \in kept : j < i}) = k - 1
                                /\ keywords[k] = words[i]

\* C18 case: the extraction call failed on a message with stop words and
\* retrieval went on with the remaining word
C18_Witness ==
    /\ rag_log # <<>>
    /\ KeywordOutcome.kind # "reply"
    /\ Len(split(message)) = 4
    /\ Len(keywords) = 1
    /\ pc = "retrieved"
    /\ rag_result # <<>>

\* the scores of the chunks of a knowledge document for the keywords
ChunkScores(doc) ==
    {chunk_score(chunks_of(doc)[i], keywords) : i \in 1..Len(chunks_of(doc))} \cup {0}

\* the greatest of them
MaxScore(doc) == CHOOSE m \in ChunkScores(doc) : \A n \in ChunkScores(doc) : n <= m

\* the first chunk attaining the greatest score
FirstBest(doc) ==
    LET at == {i \in 1..Len(chunks_of(doc)) :
                  chunk_score(chunks_of(doc)[i], keywords) = MaxScore(doc)}
    IN  chunks_of(doc)[CHOOSE i \in at : \A j \in at : i <= j]

\* found is the result of the knowledge search for an assignment of found
\* documents to distinct input documents, with the content given by shown
FoundMatches(shown(_)) ==
    \E f \in [1..Len(KnowledgeFound) -> 1..Len(knowledge_docs)] :
        /\ \A a, b \in 1..Len(KnowledgeFound) : a # b => f[a] # f[b]
        /\ \A a \in 1..Len(KnowledgeFound) :
            /\ MaxScore(knowledge_docs[f[a]]) > 0
            /\ KnowledgeFound[a].relevance = MaxScore(knowledge_docs[f[a]])
            /\ KnowledgeFound[a].content = shown(FirstBest(knowledge_docs[f[a]]))

\* the knowledge search of this retrieval has run
KnowledgeSearched == pc = "retrieved" /\ keywords # <<>> /\ knowledge_docs # <<>>

\* C19, as stated: search_knowledge_base returns, for each input document,
\* at most one Retrieved Document: its relevance is the maximum over the
\* document's chunks of (keywords occurring case-insensitively in the chunk)
\* / (number of keywords), its content is the first chunk attaining that
\* maximum, and documents whose maximum is zero are discarded.
C19_ContentIsFirstBestChunk ==
    KnowledgeSearched => FoundMatches(LAMBDA c : c)

\* C19, amended: the same, with the content being the first chunk attaining
\* the maximum cut to its first 1000 characters followed by "..." when the
\* chunk is longer than 1000 characters.
C19_ContentIsFirstBestChunkTruncated ==
    KnowledgeSearched => FoundMatches(truncate)

\* C19 case: the documented example, chunks "alpha beta" and "gamma delta"
\* with the keyword "beta", found with chunk "alpha beta" and relevance 1
C19_Witness ==
    /\ KnowledgeSearched
    /\ Len(keywords) = 1
    /\ str_lower(keywords[1]) = ChunkFullBeta.text
    /\ \E i \in 1..Len(knowledge_docs) : knowledge_docs[i].id = "doc_example"
    /\ \E a \in 1..Len(KnowledgeFound) :
        /\ KnowledgeFound[a].source_id = "doc_example"
        /\ KnowledgeFound[a].content = ChunkAlphaBeta
        /\ KnowledgeFound[a].relevance = 60

\* C14: for every merged, relevance-sorted candidate sequence, the documents
\* returned by retrieve_context are the leading ones of the sequence, their
\* total content length never exceeds the character budget
\* RAG_MAX_TOKENS * 4, and if any document was excluded, adding the first
\* excluded document to the returned ones would have exceeded that budget.
C14_ContextWithinBudget ==
    pc = "retrieved"
        => /\ Len(rag_result) <= Len(all_docs)
           /\ rag_result = SubSeq(all_docs, 1, Len(rag_result))
           /\ \A i \in 1..(Len(all_docs) - 1) :
                all_docs[i].relevance >= all_docs[i + 1].relevance
           /\ TotalChars(rag_result) <= RAG_MAX_TOKENS * 4
           /\ Len(rag_result) < Len(all_docs)
                => TotalChars(rag_result)
                     + ContentLen(all_docs[Len(rag_result) + 1].content)
                        > RAG_MAX_TOKENS * 4

\* C14 case: some documents were returned and a later one was excluded
C14_Witness ==
    /\ pc = "retrieved"
    /\ rag_result # <<>>
    /\ Len(rag_result) < Len(all_docs)

\* the knowledge documents that search_knowledge_base can process
WellFormedDocs == SelectSeq(knowledge_docs, LAMBDA doc : ~document_raises(doc))

\* C17: in retrieve_context, a failure of any single source (network error
\* or malformed payload of the external search, or a malformed local
\* document) contributes an empty list from that source only: retrieval
\* still returns the other source's documents and never raises.
C17_SourceFailureContributesNothing ==
    /\ pc # "retrieve_raised"
    /\ (/\ pc = "retrieved"
        /\ ConfluenceCalls # <<>>
        /\ ConfluenceCalls[1].outcome.kind # "pages")
            => all_docs = search_knowledge_base(keywords, WellFormedDocs)

\* C30: the documents returned by retrieve_context are always a prefix of
\* the merged relevance-sorted sequence: capping stops at the first document
\* that would overflow the budget, so no document after it is included even
\* if it would fit, and every included document is included whole.
C30_ReturnedIsPrefixUpToFirstOverflow ==
    pc = "retrieved"
        => LET over == {k \in 1..Len(all_docs) :
                           TotalChars(SubSeq(all_docs, 1, k)) > RAG_MAX_TOKENS * 4}
               n == IF over = {} THEN Len(all_docs)
                    ELSE (CHOOSE k \in over : \A j \in over : k <= j) - 1
           IN  /\ Len(rag_result) = n
               /\ \A i \in 1..n : rag_result[i] = all_docs[i]

\* C30 case: a document after the first overflowing one would have fitted
\* the budget and is not returned
C30_Witness ==
    /\ pc = "retrieved"
    /\ Len(rag_result) + 1 < Len(all_docs)
    /\ \E k \in (Len(rag_result) + 2)..Len(all_docs) :
        TotalChars(rag_result) + ContentLen(all_docs[k].content) <= RAG_MAX_TOKENS * 4

(***************************************************************************)
(* The provider configuration of a chat request: agent_chat from the       *)
(* building of the LLMConfig to the first model call of run_agent_loop     *)
(***************************************************************************)

\* providers/llm.py 35-46: the providers the dispatch of chat knows
SupportedProviders == {"openai", "anthropic", "azure", "gemini", "z-ai", "ollama"}

\* agents/types.py: LLMConfig (provider is any string, nothing validates it)
LLMConfig(provider) == [provider |-> provider]

\* providers/llm.py 47: chat raises ValueError("Unsupported LLM provider")
\* before it sends anything
llm_chat_unsupported(config) == config.provider \notin SupportedProviders

\* the outcome of a model call that raised for an unsupported provider
UnsupportedOutcome == [kind |-> "ValueError", text |-> <<>>]

\* settings.llm.provider of the requests: two known providers, a provider the
\* dispatch does not know, an empty name
LlmProviders == {"openai", "ollama", "bedrock", ""}

\* the messages of the requests: one no routing rule knows, one made of stop
\* words only, one naming the risk agent
ConfigMessages ==
    {<<"b", "e", "t", "a">>,
     <<"W", "h", "a", "t", " ", "i", "s", " ", "t", "h", "e">>,
     <<"W", "h", "a", "t", " ", "i", "s", " ", "t", "h", "e", " ", "r", "i", "s", "k">>}

\* settings._knowledgeDocs of the requests: none, or the documented example
ConfigKnowledge == {<<>>} \cup {<<d>> : d \in {k \in KnowledgeDocuments : k.id = "doc_example"}}

\* main.py 103-105: preferences.autonomyLevel of the requests
ConfigRequests == {[autonomy_level |-> l] : l \in AutonomyLevel}

\* the variables the steps of agent_chat before the loop leave alone
notConfigVars ==
    <<gateVars, request, chatVars, loopVars, llm_log, exec_log, gate_log,
      returns, emitted, route_log, rag_log, pairVars, chunkVars, actionVars>>

InitConfig ==
    /\ message \in ConfigMessages
    /\ explicit_agent \in {None, "advisor"}
    /\ llm_config \in {LLMConfig(p) : p \in LlmProviders}
    /\ confluence_enabled \in BOOLEAN
    /\ knowledge_docs \in ConfigKnowledge
    /\ RAG_MAX_TOKENS = 4000
    /\ network_calls = <<>>
    /\ route_result = None
    /\ route_log = <<>>
    /\ keywords = <<>>
    /\ all_docs = <<>>
    /\ rag_result = None
    /\ rag_log = <<>>
    /\ procs = <<>>
    /\ heard = <<>>
    /\ chunk_words = 0
    /\ chunk_size = 0
    /\ overlap = 0
    /\ start = 0
    /\ chunk_out = <<>>
    /\ action = None
    /\ action_log = <<>>
    /\ pc = "chat_route"
    /\ gate_in = None
    /\ gate_out = None
    /\ request \in ConfigRequests
    /\ run = 0
    /\ result = None
    /\ chat_response = None
    /\ agent_id = None
    /\ iterations = 0
    /\ messages = <<>>
    /\ response_text = EmptyText
    /\ tool_calls = <<>>
    /\ tool_result_parts = <<>>
    /\ tools_executed = <<>>
    /\ pending_actions = <<>>
    /\ llm_log = <<>>
    /\ exec_log = <<>>
    /\ gate_log = <<>>
    /\ returns = <<>>
    /\ emitted = 0

\* main.py 114-115 and orchestrator.py 139-148: route_message. The
\* classification call is issued when no agent is selected and no rule
\* matches; with an unsupported provider it raises ValueError without a
\* network call, which route_by_llm catches
ChatRoute ==
    /\ pc = "chat_route"
    /\ IF explicit_selected(explicit_agent)
       THEN /\ route_result' = explicit_agent
            /\ pc' = "chat_keywords"
            /\ UNCHANGED network_calls
       ELSE IF route_by_keywords(message) # None
       THEN /\ route_result' = route_by_keywords(message)
            /\ pc' = "chat_keywords"
            /\ UNCHANGED network_calls
       ELSE \E outcome \in (IF llm_chat_unsupported(llm_config)
                            THEN {UnsupportedOutcome} ELSE RouteLlmOutcomes) :
            /\ network_calls' = IF llm_chat_unsupported(llm_config) THEN network_calls
                                ELSE Append(network_calls, "llm_chat")
            /\ IF route_by_llm(outcome).raised
               THEN route_result' = route_result /\ pc' = "route_raised"
               ELSE route_result' = route_by_llm(outcome).agent /\ pc' = "chat_keywords"
    /\ UNCHANGED <<message, explicit_agent, llm_config, RAG_MAX_TOKENS, knowledge_docs,
                   confluence_enabled, keywords, all_docs, rag_result, notConfigVars>>

\* main.py 120-126 and rag.py 30-46, 179-181: the keyword-extraction call of
\* retrieve_context; every exception of the call, the ValueError of an
\* unsupported provider included, falls back to the words of the message
ChatKeywords ==
    /\ pc = "chat_keywords"
    /\ \E outcome \in (IF llm_chat_unsupported(llm_config)
                       THEN {UnsupportedOutcome} ELSE KeywordOutcomes) :
        /\ network_calls' = IF llm_chat_unsupported(llm_config) THEN network_calls
                            ELSE Append(network_calls, "llm_chat")
        /\ keywords' = extract_keywords(message, outcome)
        /\ IF extract_keywords(message, outcome) = <<>>
           THEN rag_result' = <<>> /\ pc' = "chat_loop"
           ELSE /\ rag_result' = rag_result
                /\ pc' = IF confluence_enabled THEN "chat_confluence" ELSE "chat_knowledge"
    /\ UNCHANGED <<message, explicit_agent, route_result, llm_config, RAG_MAX_TOKENS,
                   knowledge_docs, confluence_enabled, all_docs, notConfigVars>>

\* faulty variant of ChatConfluence: the search asks the gate first and is
\* skipped unless the gate says execute
ChatConfluence_Gated ==
    /\ pc = "chat_confluence"
    /\ IF check_autonomy_gate("confluence_search", request.autonomy_level, FALSE, FALSE)
            # "execute"
       THEN /\ pc' = "chat_knowledge"
            /\ UNCHANGED <<network_calls, all_docs>>
       ELSE \E outcome \in ConfluenceOutcomes :
            /\ network_calls' = Append(network_calls, "execute_tool")
            /\ IF search_confluence_raises(outcome)
               THEN all_docs' = all_docs /\ pc' = "retrieve_raised"
               ELSE all_docs' = all_docs \o search_confluence(outcome) /\ pc' = "chat_knowledge"
    /\ UNCHANGED <<message, explicit_agent, route_result, llm_config, RAG_MAX_TOKENS,
                   knowledge_docs, confluence_enabled, keywords, rag_result, notConfigVars>>

\* rag.py 184-186 and 54-102: search_confluence invokes confluence_search on
\* the tool backend, whatever the provider of the request is
ChatConfluence ==
    /\ pc = "chat_confluence"
    /\ \E outcome \in ConfluenceOutcomes :
        /\ network_calls' = Append(network_calls, "execute_tool")
        /\ IF search_confluence_raises(outcome)
           THEN all_docs' = all_docs /\ pc' = "retrieve_raised"
           ELSE all_docs' = all_docs \o search_confluence(outcome) /\ pc' = "chat_knowledge"
    /\ UNCHANGED <<message, explicit_agent, route_result, llm_config, RAG_MAX_TOKENS,
                   knowledge_docs, confluence_enabled, keywords, rag_result, notConfigVars>>

\* rag.py 189-210: the knowledge base is searched, the documents are sorted
\* and cut to the budget
ChatKnowledge ==
    /\ pc = "chat_knowledge"
    /\ IF knowledge_docs # <<>> /\ search_knowledge_base_raises(keywords, knowledge_docs)
       THEN /\ pc' = "retrieve_raised"
            /\ UNCHANGED <<all_docs, rag_result>>
       ELSE LET kb_docs == IF knowledge_docs # <<>>
                           THEN search_knowledge_base(keywords, knowledge_docs)
                           ELSE <<>>
                sorted == sort_by_relevance(all_docs \o kb_docs)
            IN  /\ all_docs' = sorted
                /\ rag_result' = cap_docs(sorted, 0, RAG_MAX_TOKENS * 4)
                /\ pc' = "chat_loop"
    /\ UNCHANGED <<message, explicit_agent, route_result, llm_config, network_calls,
                   RAG_MAX_TOKENS, knowledge_docs, confluence_enabled, keywords,
                   notConfigVars>>

\* main.py 140-154 and loop.py 70-71: the first model call of run_agent_loop,
\* outside any try block: with an unsupported provider its ValueError leaves
\* agent_chat, with a known provider the call goes out
ChatFirstModelCall ==
    /\ pc = "chat_loop"
    /\ IF llm_chat_unsupported(llm_config)
       THEN pc' = "config_error" /\ UNCHANGED network_calls
       ELSE pc' = "loop_running" /\ network_calls' = Append(network_calls, "llm_chat")
    /\ UNCHANGED <<message, explicit_agent, route_result, llm_config, RAG_MAX_TOKENS,
                   knowledge_docs, confluence_enabled, keywords, all_docs, rag_result,
                   notConfigVars>>

NextConfig ==
    \/ ChatRoute
    \/ ChatKeywords
    \/ ChatConfluence
    \/ ChatKnowledge
    \/ ChatFirstModelCall

SpecConfig == InitConfig /\ [][NextConfig]_vars

(***************************************************************************)
(* Properties of the provider configuration (checked under SpecConfig)     *)
(***************************************************************************)

\* C21: a chat request whose model configuration names an unsupported
\* provider fails with a configuration error raised before any network call
\* of the request (model provider call, source-search call or tool-backend
\* call) has been made: such a request never makes a network call and ends
\* only in the configuration error.
C21_ConfigErrorBeforeAnyNetworkCall ==
    llm_chat_unsupported(llm_config)
        => /\ network_calls = <<>>
           /\ pc \notin {"retrieve_raised", "route_raised", "loop_running"}

(***************************************************************************)
(* Two chat requests in one process: each call of agent_chat is a          *)
(* coroutine that runs until its next await (keyword extraction, source    *)
(* search, model call, tool invocation) and is resumed with the answer;    *)
(* the event loop resumes the suspended requests in any order              *)
(***************************************************************************)

\* the requests in flight
PairRequests == {1, 2}

\* request.agent_id of both requests: the agent is selected, route_message
\* returns it without a model call
PairAgent == "advisor"

\* request.message of both requests
PairMessage == <<"b", "e", "t", "a">>

\* preferences.autonomyLevel of the requests
PairLevels == {"oversight", "full"}

\* what the keyword-extraction call of a request may come back with: some
\* keywords, or a reply without any
PairKeywordOutcomes ==
    {[kind |-> "reply", text |-> <<"b", "e", "t", "a">>],
     [kind |-> "reply", text |-> <<",", ",">>]}

\* what the Confluence search of request r may come back with: an error
\* status, or one page (the page of each request has its own body)
PairSearchOutcomes(r) ==
    {[kind |-> "http_error", pages |-> <<>>],
     [kind |-> "pages",
      pages |-> <<IF r = 1 THEN Content(<<"R", "i", "s", "k", " ", "b", "e", "t", "a">>, 0, FALSE)
                  ELSE Content(<<"r", "i", "s", "k">>, 1196, FALSE)>>]}

\* what a model call of request r may come back with: prose, one tool call,
\* two tool calls; the arguments of a call name the request whose
\* conversation the model answered
PairContents(r) ==
    {Prose,
     Text(<<ToolCall("jira_create_issue", [request |-> r])>>, <<>>, TRUE),
     Text(<<ToolCall("jira_search_issues", [request |-> r]),
            ToolCall("jira_create_issue", [request |-> r])>>, <<>>, TRUE)}

\* what a tool invocation may end as
PairToolOutcomes == {"ok", "http_error"}

\* main.py 91-126: the locals of agent_chat and run_agent_loop when the
\* request first suspends, in the keyword-extraction call of retrieve_context
StartChat(r, level) ==
    [request_id |-> r, autonomy_level |-> level, pc |-> "keywords",
     agent_id |-> PairAgent, keywords |-> <<>>, rag_docs |-> <<>>,
     iterations |-> 0, messages |-> <<>>, response_text |-> EmptyText,
     tool_calls |-> <<>>, tool_result_parts |-> <<>>, tools_executed |-> <<>>,
     pending_actions |-> <<>>, result |-> None]

\* main.py 128-154 and loop.py 51-70: the prompt is built from the retrieved
\* documents, the loop creates its lists and suspends in its first model call
StartLoop(l, docs) ==
    [l EXCEPT
        !.rag_docs = docs,
        !.messages = <<ChatMessage("system", [kind |-> "system_prompt", agent |-> l.agent_id,
                                               rag_docs |-> docs]),
                       ChatMessage("user", [kind |-> "message", request |-> l.request_id])>>,
        !.response_text = EmptyText,
        !.tool_calls = <<>>,
        !.tool_result_parts = <<>>,
        !.tools_executed = <<>>,
        !.pending_actions = <<>>,
        !.iterations = 1,
        !.pc = "llm"]

\* rag.py 179-186: the keyword extraction answers; without keywords nothing
\* is retrieved, with keywords the Confluence search is awaited (Confluence
\* is connected, the request has no knowledge documents)
OnKeywords(l, outcome) ==
    IF extract_keywords(PairMessage, outcome) = <<>>
    THEN StartLoop(l, <<>>)
    ELSE [l EXCEPT !.keywords = extract_keywords(PairMessage, outcome), !.pc = "search"]

\* rag.py 184-210: the search answers; its documents are sorted and capped
OnSearch(l, outcome) ==
    StartLoop(l, cap_docs(sort_by_relevance(search_confluence(outcome)), 0,
                          RAG_MAX_TOKENS * 4))

\* loop.py 144-154 and 66-67: the response and the tool results join the
\* conversation; the run suspends in the next model call
EndIteration(l) ==
    LET joined == [l EXCEPT
                      !.messages = @ \o
                          <<ChatMessage("assistant", l.response_text),
                            ChatMessage("user", [kind |-> "tool_results",
                                                 parts |-> l.tool_result_parts])>>]
    IN  IF l.iterations < AGENTS_max_iterations(l.agent_id)
        THEN [joined EXCEPT !.iterations = @ + 1, !.pc = "llm"]
        ELSE [joined EXCEPT !.pc = "finalize"]

\* loop.py 88-142: the calls not handled yet are taken in order; a gated or
\* blocked call is recorded without suspending, an executed call suspends the
\* run in execute_tool
RECURSIVE HandleCalls(_)
HandleCalls(l) ==
    IF l.tool_calls = <<>> THEN EndIteration(l)
    ELSE LET tc == Head(l.tool_calls)
             gate == check_autonomy_gate(tc.name, l.autonomy_level, FALSE, FALSE)
         IN  IF gate = "execute" THEN [l EXCEPT !.pc = "tool"]
             ELSE IF gate = "gate"
             THEN HandleCalls(
                     [l EXCEPT
                         !.pending_actions = Append(@,
                             PendingAction(<<l.request_id, Len(l.pending_actions) + 1>>,
                                           l.agent_id, tc.name, tc.arguments,
                                           describe_tool_action(tc.name, tc.arguments))),
                         !.tools_executed = Append(@,
                             ToolExecution(tc.name, tc.arguments, None, "pending")),
                         !.tool_result_parts = Append(@,
                             [kind |-> "requires_approval", tool |-> tc.name]),
                         !.tool_calls = Tail(@)])
             ELSE HandleCalls(
                     [l EXCEPT
                         !.tools_executed = Append(@,
                             ToolExecution(tc.name, tc.arguments, None, "blocked")),
                         !.tool_result_parts = Append(@,
                             [kind |-> "disabled", tool |-> tc.name,
                              desc |-> describe_tool_action(tc.name, tc.arguments),
                              level |-> l.autonomy_level]),
                         !.tool_calls = Tail(@)])

\* loop.py 163-173 and main.py 156-206: the run returns; the final text of
\* these requests names no other agent, so agent_chat answers
Finish(l, final_content) ==
    [l EXCEPT
        !.pc = "done",
        !.result = AgentChatResponse(
                       AgentResponse(l.agent_id, final_content, l.tools_executed,
                                     l.pending_actions, _detect_handoff(final_content),
                                     l.iterations))]

\* loop.py 70-86: the model call of an iteration answers
OnModel(l, content) ==
    IF parse_tool_calls(content) = <<>> THEN Finish(l, content)
    ELSE HandleCalls([l EXCEPT !.response_text = content,
                               !.tool_calls = parse_tool_calls(content),
                               !.tool_result_parts = <<>>])

\* loop.py 99-110: execute_tool answers; the call is recorded and the calls
\* after it are handled
OnTool(l, outcome) ==
    LET tc == Head(l.tool_calls)
        res == execute_tool(tc.name, outcome)
    IN  HandleCalls(
            [l EXCEPT
                !.tools_executed = Append(@,
                    ToolExecution(tc.name, tc.arguments, res.content,
                                  IF res.is_error THEN "failed" ELSE "executed")),
                !.tool_result_parts = Append(@,
                    [kind |-> "result", tool |-> tc.name, content |-> res.content]),
                !.tool_calls = Tail(@)])

\* loop.py 156-161: the finalizing call answers
OnFinal(l, content) == Finish(l, strip_tool_blocks(content))

\* the coroutine of a request, resumed with the answer it awaited, runs to
\* its next await or to its end
Resume(l, answer) ==
    CASE l.pc = "keywords" -> OnKeywords(l, answer)
      [] l.pc = "search" -> OnSearch(l, answer)
      [] l.pc = "llm" -> OnModel(l, answer)
      [] l.pc = "tool" -> OnTool(l, answer)
      [] l.pc = "finalize" -> OnFinal(l, answer)

\* faulty variant: the record and pending lists are one pair of lists of the
\* module, so that a request resumes with what the first request appended
Frame_SharedLists(r) ==
    [procs[r] EXCEPT !.tools_executed = procs[1].tools_executed,
                     !.pending_actions = procs[1].pending_actions]

\* loop.py 51-64 and main.py 95-154: every list and counter of a request is
\* a local of its own call of agent_chat and run_agent_loop; the coroutine
\* resumes with exactly the locals it suspended with
Frame(r) == procs[r]

\* the variables the resumption of a request leaves alone
notPairVars ==
    <<gateVars, routeVars, ragVars, configVars, request, chatVars, loopVars,
      llm_log, exec_log, gate_log, returns, emitted, pc, chunkVars, actionVars>>

InitPair ==
    /\ procs \in {[r \in PairRequests |-> StartChat(r, level[r])] :
                     level \in [PairRequests -> PairLevels]}
    /\ heard = [r \in PairRequests |-> <<>>]
    /\ chunk_words = 0
    /\ chunk_size = 0
    /\ overlap = 0
    /\ start = 0
    /\ chunk_out = <<>>
    /\ action = None
    /\ action_log = <<>>
    /\ pc = "pair"
    /\ llm_config = None
    /\ network_calls = <<>>
    /\ message = <<>>
    /\ explicit_agent = None
    /\ route_result = None
    /\ route_log = <<>>
    /\ RAG_MAX_TOKENS = 4000
    /\ knowledge_docs = <<>>
    /\ confluence_enabled = TRUE
    /\ keywords = <<>>
    /\ all_docs = <<>>
    /\ rag_result = None
    /\ rag_log = <<>>
    /\ gate_in = None
    /\ gate_out = None
    /\ request = None
    /\ run = 0
    /\ result = None
    /\ chat_response = None
    /\ agent_id = None
    /\ iterations = 0
    /\ messages = <<>>
    /\ response_text = EmptyText
    /\ tool_calls = <<>>
    /\ tool_result_parts = <<>>
    /\ tools_executed = <<>>
    /\ pending_actions = <<>>
    /\ llm_log = <<>>
    /\ exec_log = <<>>
    /\ gate_log = <<>>
    /\ returns = <<>>
    /\ emitted = 0

\* the event loop hands an answer to the suspended request r, which runs on
\* to its next await
Deliver(r, answer) ==
    /\ procs' = [procs EXCEPT ![r] = Resume(Frame(r), answer)]
    /\ heard' = [heard EXCEPT ![r] = Append(@, answer)]
    /\ UNCHANGED notPairVars

\* rag.py 32: request r is resumed from its keyword-extraction call
ResumeKeywords(r) ==
    /\ pc = "pair"
    /\ procs[r].pc = "keywords"
    /\ \E outcome \in PairKeywordOutcomes : Deliver(r, outcome)

\* rag.py 185: request r is resumed from its Confluence search
ResumeSearch(r) ==
    /\ pc = "pair"
    /\ procs[r].pc = "search"
    /\ \E outcome \in PairSearchOutcomes(r) : Deliver(r, outcome)

\* loop.py 70: request r is resumed from the model call of an iteration;
\* the provider emits at most MaxEmitted tool-call blocks for a request
ResumeModel(r) ==
    /\ pc = "pair"
    /\ procs[r].pc = "llm"
    /\ \E content \in PairContents(r) :
        /\ Len(procs[r].tools_executed) + CallBlocks(content) <= MaxEmitted
        /\ Deliver(r, content)

\* loop.py 100: request r is resumed from execute_tool
ResumeTool(r) ==
    /\ pc = "pair"
    /\ procs[r].pc = "tool"
    /\ \E outcome \in PairToolOutcomes : Deliver(r, outcome)

\* loop.py 158: request r is resumed from its finalizing call
ResumeFinal(r) ==
    /\ pc = "pair"
    /\ procs[r].pc = "finalize"
    /\ \E content \in PairContents(r) : Deliver(r, content)

NextPair ==
    \E r \in PairRequests :
        \/ ResumeKeywords(r)
        \/ ResumeSearch(r)
        \/ ResumeModel(r)
        \/ ResumeTool(r)
        \/ ResumeFinal(r)

SpecPair == InitPair /\ [][NextPair]_vars

(***************************************************************************)
(* Properties of concurrent requests (checked under SpecPair)              *)
(***************************************************************************)

\* the locals a request reaches when it runs alone and hears the answers
RECURSIVE Replay(_, _)
Replay(l, answers) ==
    IF answers = <<>> THEN l
    ELSE Replay(Resume(l, Head(answers)), Tail(answers))

\* the tool-call blocks of the assistant messages of a conversation
AssistantBlocks(msgs) ==
    UNION {{msgs[i].content.blocks[j] : j \in 1..Len(msgs[i].content.blocks)} :
              i \in {k \in 1..Len(msgs) : msgs[k].role = "assistant"}}

\* every entry of the lists of request r was produced by request r
OwnEntries(r) ==
    /\ \A i \in 1..Len(procs[r].tools_executed) :
           procs[r].tools_executed[i].arguments.request = r
    /\ \A i \in 1..Len(procs[r].pending_actions) :
           /\ procs[r].pending_actions[i].tool_arguments.request = r
           /\ procs[r].pending_actions[i].id[1] = r
    /\ \A i \in 1..Len(procs[r].rag_docs) :
           \E o \in PairSearchOutcomes(r) :
               \E j \in 1..Len(search_confluence(o)) :
                   procs[r].rag_docs[i] = search_confluence(o)[j]
    /\ \A i \in 1..Len(procs[r].messages) :
           procs[r].messages[i].role = "user" /\ procs[r].messages[i].content.kind = "message"
               => procs[r].messages[i].content.request = r
    /\ \A b \in AssistantBlocks(procs[r].messages) : b.arguments.request = r

MergedDocs ==
    (IF ConfluenceCalls = <<>> THEN <<>> ELSE search_confluence(ConfluenceCalls[1].outcome))
        \o (IF knowledge_docs = <<>> THEN <<>>
            ELSE search_knowledge_base(keywords, knowledge_docs))

\* the relevances the merged documents have
MergedRelevances == {MergedDocs[i].relevance : i \in 1..Len(MergedDocs)}

\* the documents of a list that have relevance v, in the order of the list
WithRelevance(docs, v) == SelectSeq(docs, LAMBDA d : d.relevance = v)

\* C31: retrieve_context orders the merged documents by non-increasing
\* relevance and the ordering is stable: documents of equal relevance keep
\* their merge order, external-search documents before knowledge-base
\* documents, and within one source the order that source returned.
C31_SortedStableByRelevance ==
    pc = "retrieved" /\ keywords # <<>>
        => /\ Len(all_docs) = Len(MergedDocs)
           /\ \A i \in 1..Len(all_docs) : \A j \in 1..Len(all_docs) :
                  i < j => all_docs[i].relevance >= all_docs[j].relevance
           /\ \A v \in MergedRelevances :
                  WithRelevance(all_docs, v) = WithRelevance(MergedDocs, v)

\* C31 case: a Confluence page and a knowledge-base document tie on
\* relevance, and the sort moved some document from its merge position
C31_Witness ==
    /\ pc = "retrieved"
    /\ keywords # <<>>
    /\ \E i \in 1..Len(all_docs) : \E j \in 1..Len(all_docs) :
        /\ i < j
        /\ all_docs[i].relevance = all_docs[j].relevance
        /\ all_docs[i].source_type = "confluence"
        /\ all_docs[j].source_type = "file"
    /\ all_docs # MergedDocs

(***************************************************************************)
(* Malformed tool blocks, allowed tools and record counts of a loop run    *)
(* (checked under Spec)                                                    *)
(***************************************************************************)

\* the last model call of the request
LastCall == llm_log[Len(llm_log)]

\* C32: parse_tool_calls returns, in order of appearance, exactly the fenced
\* tool blocks whose body is a JSON object containing both a name and an
\* arguments object; every other block is dropped silently, and neither the
\* parser nor the loop ever raises because of a malformed fragment: no call
\* whose arguments are not an object reaches the gate, and the request never
\* fails on a block that is no object or on arguments that are no object.
C32_MalformedBlocksDroppedSilently ==
    /\ \A i \in 1..Len(gate_log) : gate_log[i].arguments # "not_object"
    /\ pc = "raised" /\ llm_log # <<>>
        => /\ ~(LastCall.ok /\ LastCall.phase = "iterate"
                    /\ parse_tool_calls_raises(LastCall.content))
           /\ ~(tool_calls # <<>> /\ Head(tool_calls).arguments = "not_object")

(***************************************************************************)
(* chunk_text (knowledge/chunker.py). The text is abstracted to the number *)
(* of its words; a chunk is the range of word positions it joins.          *)
(***************************************************************************)

\* most words of a chunked text
MaxTextWords == 4

\* largest chunk_size and overlap handed to chunk_text
MaxChunkSize == 3

\* most chunks collected, and the lowest start followed, before the model
\* stops following a call that does not end
MaxChunks == 5

\* a position of a slice, as Python clamps it into 0..n
SliceIndex(n, i) ==
    IF i < 0 THEN (IF n + i < 0 THEN 0 ELSE n + i)
    ELSE IF i > n THEN n ELSE i

\* words[a:b] of a list of n words: the positions lo+1..hi it holds
Slice(n, a, b) == [lo |-> SliceIndex(n, a), hi |-> SliceIndex(n, b)]

\* chunker.py 21: config.py KB_CHUNK_SIZE and KB_CHUNK_OVERLAP are the
\* defaults; callers may pass any integers
ChunkConfigs ==
    {[chunk_size |-> c, overlap |-> o] : c \in 1..MaxChunkSize, o \in 0..MaxChunkSize}

\* the variables chunk_text leaves alone
notChunkVars ==
    <<gateVars, routeVars, ragVars, configVars, pairVars, actionVars, request,
      chatVars, loopVars, llm_log, exec_log, gate_log, returns, emitted>>

InitChunk ==
    /\ chunk_words \in 0..MaxTextWords
    /\ \E c \in ChunkConfigs : chunk_size = c.chunk_size /\ overlap = c.overlap
    /\ start = 0
    /\ chunk_out = <<>>
    /\ pc = "chunk_text"
    /\ action = None
    /\ action_log = <<>>
    /\ llm_config = None
    /\ network_calls = <<>>
    /\ procs = <<>>
    /\ heard = <<>>
    /\ message = <<>>
    /\ explicit_agent = None
    /\ route_result = None
    /\ route_log = <<>>
    /\ RAG_MAX_TOKENS = 4000
    /\ knowledge_docs = <<>>
    /\ confluence_enabled = FALSE
    /\ keywords = <<>>
    /\ all_docs = <<>>
    /\ rag_result = None
    /\ rag_log = <<>>
    /\ gate_in = None
    /\ gate_out = None
    /\ request = None
    /\ run = 0
    /\ result = None
    /\ chat_response = None
    /\ agent_id = None
    /\ iterations = 0
    /\ messages = <<>>
    /\ response_text = EmptyText
    /\ tool_calls = <<>>
    /\ tool_result_parts = <<>>
    /\ tools_executed = <<>>
    /\ pending_actions = <<>>
    /\ llm_log = <<>>
    /\ exec_log = <<>>
    /\ gate_log = <<>>
    /\ returns = <<>>
    /\ emitted = 0

\* chunker.py 22-25: a text of at most chunk_size words is returned as one
\* chunk, or as no chunk when it is blank
ChunkShort ==
    /\ pc = "chunk_text"
    /\ chunk_words <= chunk_size
    /\ chunk_out' = IF chunk_words > 0 THEN <<Slice(chunk_words, 0, chunk_words)>> ELSE <<>>
    /\ pc' = "chunked"
    /\ UNCHANGED <<chunk_words, chunk_size, overlap, start, notChunkVars>>

\* chunker.py 27-30: a longer text enters the loop
ChunkBegin ==
    /\ pc = "chunk_text"
    /\ chunk_words > chunk_size
    /\ pc' = "chunking"
    /\ UNCHANGED <<chunk_words, chunk_size, overlap, start, chunk_out, notChunkVars>>

\* chunker.py 30-36: one pass of the loop: the words start..end are joined
\* and kept unless the slice is empty, and start moves by chunk_size - overlap
ChunkStep ==
    /\ pc = "chunking"
    /\ start < chunk_words
    /\ Len(chunk_out) < MaxChunks
    /\ start > -MaxChunks
    /\ LET chunk == Slice(chunk_words, start, start + chunk_size)
       IN  chunk_out' = IF chunk.lo < chunk.hi THEN Append(chunk_out, chunk) ELSE chunk_out
    /\ start' = start + chunk_size - overlap
    /\ UNCHANGED <<chunk_words, chunk_size, overlap, pc, notChunkVars>>

\* chunker.py 30 and 38: the loop ends and the chunks are returned
ChunkReturn ==
    /\ pc = "chunking"
    /\ start >= chunk_words
    /\ pc' = "chunked"
    /\ UNCHANGED <<chunkVars, notChunkVars>>

NextChunk ==
    \/ ChunkShort
    \/ ChunkBegin
    \/ ChunkStep
    \/ ChunkReturn

SpecChunk == InitChunk /\ [][NextChunk]_vars

(***************************************************************************)
(* Properties of chunk_text (checked under SpecChunk)                      *)
(***************************************************************************)

\* max(1, chunk_size - overlap)
ClampedAdvance == IF chunk_size - overlap > 1 THEN chunk_size - overlap ELSE 1

\* C33: chunk_text advances its start position by max(1, chunk_size -
\* overlap) words at every step, so it terminates for every text and every
\* configuration of chunk_size >= 1 and overlap >= 0, including overlap >=
\* chunk_size: every pass of the loop moves start forward by that amount.
C33_StartAdvancesByClampedStep ==
    [][pc = "chunking" /\ pc' = "chunking" => start' = start + ClampedAdvance]_vars

\* C34: a loop run executes only tools that are in the running agent's
\* registered allowed-tool list; in particular a run for the Advisor agent,
\* whose tool list is empty, never invokes the Tool Invoker, at any autonomy
\* level and for any model output.
C34_OnlyAllowedToolsExecuted ==
    \A i \in 1..Len(exec_log) :
        exec_log[i].tool_name \in AGENTS_tools(RunAgent(exec_log[i].run))

\* the calls of the current run whose handling is over: those the gate
\* decided on, less the one whose handling raised
HandledCalls ==
    LET decided == SelectSeq(gate_log, LAMBDA d : d.run = run)
    IN  IF pc = "raised" /\ tool_calls # <<>>
        THEN SubSeq(decided, 1, Len(decided) - 1)
        ELSE decided

\* C36: at every point of a loop run, the number of Pending Actions equals
\* the number of Tool Execution Records with status 'pending', and the total
\* number of Tool Execution Records equals the number of well-formed tool
\* calls handled so far (one record per call, in order, with status in
\* {executed, failed, pending, blocked}).
C36_RecordAndPendingCounts ==
    run >= 1
        => /\ Len(pending_actions) = Len(RecordsWith({"pending"}))
           /\ Len(tools_executed) = Len(HandledCalls)
           /\ \A i \in 1..Len(HandledCalls) :
                /\ HandledCalls[i].arguments \in {"object", "object_badvalue"}
                /\ tools_executed[i].tool_name = HandledCalls[i].tool_name
                /\ tools_executed[i].arguments = HandledCalls[i].arguments
                /\ tools_executed[i].status \in {"executed", "failed", "pending", "blocked"}
                /\ tools_executed[i].status = "pending" <=> HandledCalls[i].gate = "gate"

\* C36 case: a run holds an executed, a failed and a pending record and one
\* pending action
C36_Witness ==
    /\ pc \in {"llm", "done"}
    /\ Len(tools_executed) = 3
    /\ {tools_executed[i].status : i \in 1..3} = {"executed", "failed", "pending"}
    /\ Len(pending_actions) = 1

(***************************************************************************)
(* The approval endpoint: handle_pending_action (main.py)                  *)
(***************************************************************************)

\* most requests the endpoint answers in a behaviour
MaxActions == 2

\* the requests sent to the endpoint: the id of an action a loop run queued
\* or an id no run created; the two decisions, a decision in another case, no
\* decision; a known tool, an unknown tool, no tool name; arguments that are
\* an object or not
ActionRequests ==
    [action_id : {<<1, 1>>, <<0, 0>>},
     decision : {"approve", "reject", "Approve", ""},
     tool_name : {"jira_create_issue", "made_up_tool", ""},
     tool_arguments : {"object", "not_object"}]

\* faulty variant: a missing tool name is let through
tool_name_missing_Never(tool_name) == FALSE

\* main.py 227: not tool_name
tool_name_missing(tool_name) == tool_name = ""

\* one entry of action_log: the request, its answer, and how many calls of
\* execute_tool had been made before and after it was handled
ActionHandled(req, answer, before, after) ==
    [request |-> req, answer |-> answer, before |-> before, after |-> after]

\* main.py 228 and 242: HTTPException(status_code=400)
HTTP400(detail) == [status |-> "http_400", detail |-> detail]

\* the variables handle_pending_action leaves alone
notActionVars ==
    <<gateVars, routeVars, ragVars, configVars, pairVars, chunkVars, request,
      chatVars, loopVars, llm_log, gate_log, returns, emitted, pc>>

InitAction ==
    /\ action = None
    /\ action_log = <<>>
    /\ exec_log = <<>>
    /\ pc = "action"
    /\ chunk_words = 0
    /\ chunk_size = 0
    /\ overlap = 0
    /\ start = 0
    /\ chunk_out = <<>>
    /\ llm_config = None
    /\ network_calls = <<>>
    /\ procs = <<>>
    /\ heard = <<>>
    /\ message = <<>>
    /\ explicit_agent = None
    /\ route_result = None
    /\ route_log = <<>>
    /\ RAG_MAX_TOKENS = 4000
    /\ knowledge_docs = <<>>
    /\ confluence_enabled = FALSE
    /\ keywords = <<>>
    /\ all_docs = <<>>
    /\ rag_result = None
    /\ rag_log = <<>>
    /\ gate_in = None
    /\ gate_out = None
    /\ request = None
    /\ run = 0
    /\ result = None
    /\ chat_response = None
    /\ agent_id = None
    /\ iterations = 0
    /\ messages = <<>>
    /\ response_text = EmptyText
    /\ tool_calls = <<>>
    /\ tool_result_parts = <<>>
    /\ tools_executed = <<>>
    /\ pending_actions = <<>>
    /\ llm_log = <<>>
    /\ gate_log = <<>>
    /\ returns = <<>>
    /\ emitted = 0

\* faulty variant of ActionApprove: an action id the endpoint has answered
\* before is not executed again
ActionApprove_Once ==
    /\ pc = "action"
    /\ Len(action_log) < MaxActions
    /\ \E req \in ActionRequests :
        /\ req.decision = "approve"
        /\ action' = req
        /\ IF tool_name_missing(req.tool_name)
           THEN /\ action_log' = Append(action_log,
                        ActionHandled(req, HTTP400("Missing tool_name"),
                                      Len(exec_log), Len(exec_log)))
                /\ UNCHANGED exec_log
           ELSE IF \E i \in 1..Len(action_log) : action_log[i].request.action_id = req.action_id
           THEN /\ action_log' = Append(action_log,
                        ActionHandled(req, HTTP400("Already decided"),
                                      Len(exec_log), Len(exec_log)))
                /\ UNCHANGED exec_log
           ELSE \E outcome \in execute_tool_outcomes(req.tool_name) :
                LET res == execute_tool(req.tool_name, outcome) IN
                /\ exec_log' = Append(exec_log,
                        Invocation(ToolCall(req.tool_name, req.tool_arguments), outcome))
                /\ action_log' = Append(action_log,
                        ActionHandled(req,
                            [status |-> "executed", action_id |-> req.action_id,
                             result |-> res.content, is_error |-> res.is_error],
                            Len(exec_log), Len(exec_log) + 1))
    /\ UNCHANGED notActionVars

\* main.py 221-236: the decision is approve: without a tool name the answer
\* is an error; otherwise execute_tool is called with the tool and arguments
\* of the request, whatever the action id, and its result is the answer (or
\* its exception leaves the handler)
ActionApprove ==
    /\ pc = "action"
    /\ Len(action_log) < MaxActions
    /\ \E req \in ActionRequests :
        /\ req.decision = "approve"
        /\ action' = req
        /\ IF tool_name_missing(req.tool_name)
           THEN /\ action_log' = Append(action_log,
                        ActionHandled(req, HTTP400("Missing tool_name"),
                                      Len(exec_log), Len(exec_log)))
                /\ UNCHANGED exec_log
           ELSE IF execute_tool_raises(req.tool_name, req.tool_arguments)
           THEN /\ exec_log' = Append(exec_log,
                        Invocation(ToolCall(req.tool_name, req.tool_arguments), "raised"))
                /\ action_log' = Append(action_log,
                        ActionHandled(req, [status |-> "raised"],
                                      Len(exec_log), Len(exec_log) + 1))
           ELSE \E outcome \in execute_tool_outcomes(req.tool_name) :
                LET res == execute_tool(req.tool_name, outcome) IN
                /\ exec_log' = Append(exec_log,
                        Invocation(ToolCall(req.tool_name, req.tool_arguments), outcome))
                /\ action_log' = Append(action_log,
                        ActionHandled(req,
                            [status |-> "executed", action_id |-> req.action_id,
                             result |-> res.content, is_error |-> res.is_error],
                            Len(exec_log), Len(exec_log) + 1))
    /\ UNCHANGED notActionVars

\* main.py 238-239: the decision is reject
ActionReject ==
    /\ pc = "action"
    /\ Len(action_log) < MaxActions
    /\ \E req \in ActionRequests :
        /\ req.decision = "reject"
        /\ action' = req
        /\ action_log' = Append(action_log,
                ActionHandled(req, [status |-> "rejected", action_id |-> req.action_id],
                              Len(exec_log), Len(exec_log)))
    /\ UNCHANGED <<exec_log, notActionVars>>

\* main.py 241-242: any other decision
ActionOther ==
    /\ pc = "action"
    /\ Len(action_log) < MaxActions
    /\ \E req \in ActionRequests :
        /\ req.decision \notin {"approve", "reject"}
        /\ action' = req
        /\ action_log' = Append(action_log,
                ActionHandled(req, HTTP400("decision must be 'approve' or 'reject'"),
                              Len(exec_log), Len(exec_log)))
    /\ UNCHANGED <<exec_log, notActionVars>>

NextAction ==
    \/ ActionApprove
    \/ ActionReject
    \/ ActionOther

SpecAction == InitAction /\ [][NextAction]_vars

(***************************************************************************)
(* Properties of the approval endpoint (checked under SpecAction)          *)
(***************************************************************************)

\* the request of entry i of action_log asks to execute a tool
ApprovesTool(i) ==
    /\ action_log[i].request.decision = "approve"
    /\ action_log[i].request.tool_name # ""

\* C35: the approval endpoint invokes the Tool Invoker exactly once when the
\* decision is 'approve' and a tool name is supplied, and never invokes it
\* when the decision is 'reject', when the decision is any other value
\* (answered with an error), or when 'approve' comes without a tool name
\* (answered with an error).
C35_InvokesOnceOnApproveOnly ==
    \A i \in 1..Len(action_log) :
        LET e == action_log[i]
        IN  /\ ApprovesTool(i)
                => /\ e.after = e.before + 1
                   /\ exec_log[e.after].tool_name = e.request.tool_name
                   /\ exec_log[e.after].arguments = e.request.tool_arguments
                   /\ e.answer.status \in {"executed", "raised"}
            /\ ~ApprovesTool(i)
                => /\ e.after = e.before
                   /\ e.answer.status =
                        IF e.request.decision = "reject" THEN "rejected" ELSE "http_400"

\* C35 case: an approve without a tool name was answered with an error and
\* an approve with a tool name was executed
C35_Witness ==
    /\ Len(action_log) = 2
    /\ action_log[1].request.decision = "approve"
    /\ action_log[1].request.tool_name = ""
    /\ action_log[1].answer.status = "http_400"
    /\ ApprovesTool(2)
    /\ action_log[2].answer.status = "executed"
    /\ Len(exec_log) = 1

\* C39: the approval endpoint keeps no state about Pending Actions: an
\* 'approve' for any action id, including one that was never created by a
\* loop run or one that was already approved or rejected, invokes the
\* supplied tool each time, so approving the same action twice executes the
\* tool twice.
C39_ApprovalKeepsNoState ==
    /\ Len(exec_log) = Cardinality({i \in 1..Len(action_log) : ApprovesTool(i)})
    /\ \A i \in 1..Len(action_log) : \A j \in 1..Len(action_log) :
        (/\ i < j
         /\ action_log[i].request.action_id = action_log[j].request.action_id
         /\ ApprovesTool(j))
            => /\ action_log[j].after = action_log[j].before + 1
               /\ exec_log[action_log[j].after].tool_name = action_log[j].request.tool_name
               /\ action_log[j].answer.status \in {"executed", "raised"}

\* C39 case: the same action was approved twice and its tool ran twice
C39_Witness ==
    /\ Len(action_log) = 2
    /\ action_log[1].request = action_log[2].request
    /\ action_log[1].request.action_id = <<1, 1>>
    /\ ApprovesTool(1)
    /\ action_log[1].answer.status = "executed"
    /\ action_log[2].answer.status = "executed"
    /\ Len(exec_log) = 2
    /\ exec_log[1].tool_name = exec_log[2].tool_name

\* the tool invocations among the network calls of the request
ToolInvocations == SelectSeq(network_calls, LAMBDA c : c = "execute_tool")

\* C37: knowledge retrieval's external search calls the Tool Invoker's
\* execute for 'confluence_search' without consulting the Autonomy Gate: in
\* a chat request at level Manual or Advisory with the external source
\* enabled and a non-empty keyword list, exactly one tool invocation still
\* happens before the loop starts, and it produces no Tool Execution Record.
C37_SearchBypassesGate ==
    (/\ request.autonomy_level \in {"manual", "advisory"}
     /\ confluence_enabled
     /\ keywords # <<>>)
        => /\ check_autonomy_gate("confluence_search", request.autonomy_level, FALSE, FALSE)
                = "block"
           /\ Len(ToolInvocations) = IF pc = "chat_confluence" THEN 0 ELSE 1
           /\ tools_executed = <<>>
           /\ pending_actions = <<>>
           /\ gate_log = <<>>

\* C37 case: a request at level manual searched Confluence and reached the
\* first model call of the loop
C37_Witness ==
    /\ request.autonomy_level = "manual"
    /\ confluence_enabled
    /\ keywords # <<>>
    /\ pc = "loop_running"
    /\ Len(ToolInvocations) = 1
    /\ all_docs # <<>>

(***************************************************************************)
(* The handoff of a chat request: final texts holding several handoff      *)
(* markers, returned by the first run and by the run of the handoff target *)
(***************************************************************************)

\* most handoff markers in one final text
MaxMarkers == 3

\* the markers of the final texts: three legal agents, two of them also in
\* upper case, and a name that is no agent
HandoffSpellings == {"risk", "RISK", "ADVISOR", "strategy", "bogus"}

\* final texts without tool blocks: prose with up to MaxMarkers markers
HandoffContents == {Text(<<>>, m, TRUE) : m \in SeqUpTo(HandoffSpellings, MaxMarkers)}

\* requests selecting one of three agents, at full autonomy, without history
HandoffRequests ==
    {[agent_id |-> a, autonomy_level |-> "full", auto_send_emails |-> FALSE,
      auto_create_jira_stories |-> FALSE, history |-> <<>>] :
        a \in {"advisor", "risk", "strategy"}}

InitHandoff ==
    /\ gate_in = None
    /\ gate_out = None
    /\ pc = "start"
    /\ request \in HandoffRequests
    /\ run = 0
    /\ result = None
    /\ chat_response = None
    /\ agent_id = None
    /\ iterations = 0
    /\ messages = <<>>
    /\ response_text = EmptyText
    /\ tool_calls = <<>>
    /\ tool_result_parts = <<>>
    /\ tools_executed = <<>>
    /\ pending_actions = <<>>
    /\ llm_log = <<>>
    /\ exec_log = <<>>
    /\ gate_log = <<>>
    /\ returns = <<>>
    /\ emitted = 0
    /\ message = <<>>
    /\ explicit_agent = None
    /\ route_result = None
    /\ route_log = <<>>
    /\ RAG_MAX_TOKENS = 4000
    /\ knowledge_docs = <<>>
    /\ confluence_enabled = FALSE
    /\ keywords = <<>>
    /\ all_docs = <<>>
    /\ rag_result = None
    /\ rag_log = <<>>
    /\ llm_config = None
    /\ network_calls = <<>>
    /\ procs = <<>>
    /\ heard = <<>>
    /\ chunk_words = 0
    /\ chunk_size = 0
    /\ overlap = 0
    /\ start = 0
    /\ chunk_out = <<>>
    /\ action = None
    /\ action_log = <<>>

\* loop.py 70-86, 163-173 and main.py 156-206: the model call of the first
\* iteration answers with a text without tool calls, which is the final text
\* of the run; the run returns and agent_chat follows its handoff or answers
HandoffAnswer ==
    /\ pc = "llm"
    /\ \E content \in HandoffContents :
        /\ llm_log' = Append(llm_log, LlmCall("iterate", TRUE, content))
        /\ Return(content)
    /\ UNCHANGED <<notLoopVars, request, exec_log, gate_log, emitted>>

NextHandoff ==
    \/ AgentChatStart
    \/ HandoffAnswer

SpecHandoff == InitHandoff /\ [][NextHandoff]_vars

(***************************************************************************)
(* Properties of the handoff (checked under SpecHandoff)                   *)
(***************************************************************************)

\* the first marker of a marker list that names a legal agent in any case,
\* in lower case, scanning from the left
RECURSIVE FirstLegalMarker(_)
FirstLegalMarker(markers) ==
    IF markers = <<>> THEN None
    ELSE IF Lower(Head(markers)) \in AgentId THEN Lower(Head(markers))
    ELSE FirstLegalMarker(Tail(markers))

\* the legal agents the markers after the first legal one name
RECURSIVE LaterLegalMarkers(_)
LaterLegalMarkers(markers) ==
    IF markers = <<>> THEN {}
    ELSE IF Lower(Head(markers)) \in AgentId
         THEN {Lower(Tail(markers)[i]) : i \in 1..(Len(markers) - 1)} \cap AgentId
    ELSE LaterLegalMarkers(Tail(markers))

\* C38: handoff detection takes only the first marker of the final text: if
\* the first legal marker names the current agent, agent_chat performs no
\* second run even when a later marker in the same text names a different
\* agent; if the first legal marker names a different agent, that agent is
\* the one run, whatever later markers say.
C38_FirstMarkerDecidesHandoff ==
    Len(returns) >= 1 =>
        LET first == FirstLegalMarker(returns[1].content.markers)
        IN  /\ returns[1].handoff_to = first
            /\ (first \in {None, request.agent_id})
                   => /\ run = 1
                      /\ pc = "done"
                      /\ Len(returns) = 1
                      /\ chat_response.agent_id = request.agent_id
            /\ (first \notin {None, request.agent_id})
                   => /\ run = 2
                      /\ agent_id = first
                      /\ Len(returns) = 2 => returns[2].agent_id = first

\* C38 case: the first legal marker of the final text names the agent of the
\* request, a later one names another agent, and the request was answered
\* after one run
C38_Witness ==
    /\ pc = "done"
    /\ run = 1
    /\ Len(returns) = 1
    /\ FirstLegalMarker(returns[1].content.markers) = request.agent_id
    /\ LaterLegalMarkers(returns[1].content.markers) \ {request.agent_id} # {}

(***************************************************************************)
(* The budget of the retrieval under the default configuration (checked    *)
(* under SpecRag)                                                          *)
(***************************************************************************)

\* the documents of the Confluence search among those found
ConfluenceFound == SelectSeq(all_docs, LAMBDA d : d.source_type = "confluence")

\* C40: under the default configuration (RAG_MAX_TOKENS = 4000, RAG_MAX_DOCS
\* = 5) the cap of retrieve_context never excludes a document: each source
\* hands back at most 5 documents of at most 1003 characters, at most 10030
\* characters in total, below the budget of 16000 characters.
C40_DefaultBudgetExcludesNothing ==
    (RAG_MAX_TOKENS = 4000 /\ pc = "retrieved" /\ keywords # <<>>)
        => /\ rag_result = all_docs
           /\ Len(ConfluenceFound) <= 5
           /\ Len(KnowledgeFound) <= 5
           /\ \A i \in 1..Len(all_docs) : ContentLen(all_docs[i].content) <= 1003
           /\ TotalChars(all_docs) <= 10030
           /\ TotalChars(all_docs) < RAG_MAX_TOKENS * 4

\* C40 case: both sources were offered more than five long documents, each
\* handed back five of 1003 characters, and all ten were returned
C40_Witness ==
    /\ RAG_MAX_TOKENS = 4000
    /\ pc = "retrieved"
    /\ Len(knowledge_docs) > RAG_MAX_DOCS
    /\ \E i \in 1..Len(rag_log) :
        /\ rag_log[i].step = "execute_tool"
        /\ Len(rag_log[i].outcome.pages) > RAG_MAX_DOCS
    /\ Len(ConfluenceFound) = 5
    /\ Len(KnowledgeFound) = 5
    /\ TotalChars(all_docs) = 10030
    /\ rag_result = all_docs

====
